---- MODULE Spec2Model ----
(***************************************************************************)
(* Catalog Record Resolver of goodreader.py: the cached fetch layer        *)
(* (_download), the crawl frontier (collect_record_links), the record      *)
(* classifier (_is_eresource / _is_nonbook), the matcher                   *)
(* (_looks_like_same_book) and the search dispatcher (search /             *)
(* process_title).                                                         *)
(***************************************************************************)
EXTENDS Integers, Sequences, FiniteSets, TLC

VARIABLES
    world,        \* the catalog web site and the wish-list entry of this run
    HTML_CACHE,   \* goodreader.py:44   exact URL -> body
    ERS_CACHE,    \* goodreader.py:51   record URL -> e-resource verdict
    dl,           \* the last _download call: url, result, requests issued
    lastret,      \* history: URL -> body returned by the latest returned call
    crawl,        \* the running collect_record_links call
    srch,         \* the running search call
    found,        \* process_title: RECORD_URL, NOT_FOUND of the entry
    hold,         \* the running holdings call
    cn,           \* _canon applied to two URLs, and to its own result
    mt,           \* one _looks_like_same_book call and its locals
    run,          \* main: the loop or the thread pool over the wish list
    wk            \* the workers of the pool inside _download, step by step

vars == <<world, HTML_CACHE, ERS_CACHE, dl, lastret, crawl, srch, found, hold, cn, mt, run, wk>>

(***************************************************************************)
(* Bounds of the model.                                                    *)
(***************************************************************************)
MaxFetchUrl == 1      \* the fetch specification downloads URLs 0..MaxFetchUrl
MaxVersion  == 1      \* the server may serve versions 0..MaxVersion of a page
NPages      == 16     \* a site has 1..NPages hit-list / frame pages
MaxFan      == 2      \* a page holds 0..MaxFan frame leads
MaxAnchors  == 2      \* a page holds 0..MaxAnchors record anchors
MaxQuery    == 2      \* a hit-list URL given to _canon has 0..MaxQuery parameters
MaxTitle    == 2      \* a wanted title given to the Matcher has 0..MaxTitle segments
MaxEntries  == 3      \* a wish list has 0..MaxEntries entries
Threads     == 2      \* --threads of a thread-pool run
MaxCalls    == 3      \* the workers of a pool make 0..MaxCalls calls of _download

(***************************************************************************)
(* URLs and page bodies.                                                   *)
(*   kind "hits"  : a hit-list URL (its path holds "/frameset")            *)
(*   kind "frame" : an ordinary page (a frame / iframe source)             *)
(*   kind "rec"   : a record URL (".../record=b...")                       *)
(*   kind "bad"   : a URL holding one of the _BAD_LEADS fragments          *)
(* q is the tail of the query string, one token per parameter:             *)
(*   "slice" : a slice counter "&1,1,"   "save" : "&save=..." and the like *)
(***************************************************************************)
Url(k, i, qq) == [kind |-> k, id |-> i, q |-> qq]

\* the element of a one-element set; Once({F(x) : x \in {e}}) is F(e) with e
\* evaluated a single time
Once(S) == CHOOSE r \in S : TRUE

NoUrl == Url("none", 0, <<>>)

EmptyBody == [kind |-> "empty", of |-> NoUrl, v |-> 0]

\* the body the server sends for url: the page behind it, in version v
HtmlBody(url, ver) == [kind |-> "html", of |-> Url(url.kind, url.id, <<>>), v |-> ver]

(***************************************************************************)
(* Fetch layer.  One outcome of SESSION.get + raise_for_status:            *)
(*   "ok"      a response with a success status, text = body               *)
(*   "timeout" requests.Timeout / ReadTimeout                              *)
(*   "httperr" raise_for_status raised requests.HTTPError                  *)
(*   "connerr" requests.ConnectionError                                    *)
(*   "retryerr" requests.RetryError, the mounted Retry gave up on 502..504 *)
(***************************************************************************)
tries == 3

Out(k, b) == [kind |-> k, body |-> b]

CachePut(cache, url, body) ==
    [u \in (DOMAIN cache) \cup {url} |-> IF u = url THEN body ELSE cache[u]]

\* the result of a _download call
DlRes(cache, b, r, n) == [cache |-> cache, ret |-> b, raised |-> r, reqs |-> n]

\* the "except requests.HTTPError" handler (goodreader.py:503-507)
OnHttpErrorNoStore(cache, url, n) == DlRes(cache, EmptyBody, FALSE, n)

OnHttpError(cache, url, n) == DlRes(CachePut(cache, url, EmptyBody), EmptyBody, FALSE, n)

\* an exception no except clause of _download names: it leaves the function
OnOtherError(cache, url, n) == DlRes(cache, EmptyBody, TRUE, n)

\* the give-up of the timeout handler: store the empty body and return it
\* (goodreader.py:496-498)
OnGiveUpNoStore(cache, url, n) == DlRes(cache, EmptyBody, FALSE, n)

OnGiveUp(cache, url, n) == DlRes(CachePut(cache, url, EmptyBody), EmptyBody, FALSE, n)

\* "if attempt == tries" (goodreader.py:496)
LastTryAlways(a) == TRUE

LastTry(a) == a = tries

\* the for loop of _download from attempt a on; outs[a] is what the a-th
\* SESSION.get does
RECURSIVE Attempts(_, _, _, _)
Attempts(cache, url, outs, a) ==
    IF a > tries
    THEN DlRes(CachePut(cache, url, EmptyBody), EmptyBody, FALSE, a - 1)
    ELSE LET o == outs[a] IN
         CASE o.kind = "ok" ->
                DlRes(CachePut(cache, url, o.body), o.body, FALSE, a)
           [] o.kind = "timeout" ->
                IF LastTry(a)
                THEN OnGiveUp(cache, url, a)
                ELSE Attempts(cache, url, outs, a + 1)
           [] o.kind = "httperr" -> OnHttpError(cache, url, a)
           [] OTHER -> OnOtherError(cache, url, a)

_download(cache, url, outs) ==
    IF url \in DOMAIN cache
    THEN DlRes(cache, cache[url], FALSE, 0)
    ELSE Attempts(cache, url, outs, 1)

(***************************************************************************)
(* The catalog site.  world.fan, world.stride, world.m give the frames:    *)
(* page p leads to the pages (fan*p + i*stride) % m, i = 1..fan; with      *)
(* fan = 1 that is a chain that closes into a cycle after m pages, with    *)
(* fan = 2 a tree whose leaves link back.  Even pages are hit lists        *)
(* (frameset anchors), odd pages are frames.  world.anch gives the record  *)
(* anchors of a page, world.junk adds an empty href, a "save" lead and a   *)
(* frame on a patron endpoint (kind "bad") to every page, world.fail /     *)
(* world.failat make one URL fail.                                         *)
(***************************************************************************)
PageUrl(t, qq) == Url(IF t % 2 = 0 THEN "hits" ELSE "frame", t, qq)

RecUrl(r) == Url("rec", r, <<>>)

RawLeads(w, p) ==
    [i \in 1..w.fan |->
        LET t == (w.fan * p + i * w.stride) % w.m
        IN  PageUrl(t, IF (p + i) % 2 = 1
                       THEN (IF t % 2 = 0 THEN <<"slice">> ELSE <<"arg">>)
                       ELSE <<>>)]

IsHits(u) == u.kind = "hits"

IsFrame(u) == u.kind = "frame"

\* goodreader.py:429-432: the frameset anchors first, then the frame sources
LeadsOf(w, p) ==
    SelectSeq(RawLeads(w, p), IsHits)
      \o (IF w.junk THEN <<Url("empty", 0, <<>>), Url("hits", p, <<"save">>)>> ELSE <<>>)
      \o SelectSeq(RawLeads(w, p), IsFrame)
      \o (IF w.junk THEN <<Url("bad", p, <<>>)>> ELSE <<>>)

AnchorsOf(w, p) == IF p \in DOMAIN w.anch THEN w.anch[p] ELSE <<>>

(***************************************************************************)
(* The record pages of the site.  marker: the page has a                   *)
(* tr.bibItemsEntry holdings row; ers / nonbook: the text holds one of     *)
(* _ERS_TAGS / _NONBOOK_TAGS; ttl, aut: the title and author fields (page   *)
(* 7 has no title element in any of the layouts; pages 9 and 10 have the   *)
(* holdings row and a carrier phrase as well).                             *)
(***************************************************************************)
RecIds == 1..6

RecordPage(r) ==
    CASE r = 1 -> [marker |-> TRUE,  ers |-> FALSE, nonbook |-> FALSE,
                   ttl |-> <<"dune">>, aut |-> <<"herbert", "frank">>]
      [] r = 2 -> [marker |-> FALSE, ers |-> FALSE, nonbook |-> FALSE,
                   ttl |-> <<"dune", "messiah">>, aut |-> <<"herbert", "frank">>]
      [] r = 3 -> [marker |-> FALSE, ers |-> TRUE,  nonbook |-> FALSE,
                   ttl |-> <<"dune">>, aut |-> <<"herbert", "frank">>]
      [] r = 4 -> [marker |-> FALSE, ers |-> FALSE, nonbook |-> TRUE,
                   ttl |-> <<"dune">>, aut |-> <<"herbert", "frank">>]
      [] r = 5 -> [marker |-> TRUE,  ers |-> FALSE, nonbook |-> FALSE,
                   ttl |-> <<"children", "of", "dune">>, aut |-> <<"herbert", "frank">>]
      [] r = 6 -> [marker |-> TRUE,  ers |-> FALSE, nonbook |-> FALSE,
                   ttl |-> <<"dune">>, aut |-> <<"lynch", "david">>]
      [] r = 7 -> [marker |-> TRUE,  ers |-> FALSE, nonbook |-> FALSE,
                   ttl |-> <<>>, aut |-> <<"herbert", "frank">>]
      [] r = 8 -> [marker |-> TRUE,  ers |-> FALSE, nonbook |-> FALSE,
                   ttl |-> <<"dunes">>, aut |-> <<"herbert", "frank">>]
      [] r = 9 -> [marker |-> TRUE,  ers |-> TRUE,  nonbook |-> FALSE,
                   ttl |-> <<"dune">>, aut |-> <<"herbert", "frank">>]
      [] r = 11 -> [marker |-> TRUE,  ers |-> FALSE, nonbook |-> FALSE,
                   ttl |-> <<"tsernoboli", "palve">>, aut |-> <<"alexievich", "svetlana">>]
      [] OTHER -> [marker |-> TRUE,  ers |-> FALSE, nonbook |-> TRUE,
                   ttl |-> <<"dune">>, aut |-> <<"lynch", "david">>]

\* what the three attempts of SESSION.get(url) do on this site
NetOutcomes(w, url) ==
    LET o == IF w.fail # "none" /\ w.failat = [kind |-> url.kind, id |-> url.id]
             THEN Out(w.fail, EmptyBody)
             ELSE Out("ok", HtmlBody(url, 0))
    IN  <<o, o, o>>

(***************************************************************************)
(* What BeautifulSoup finds in a body.  An empty body has no element.      *)
(***************************************************************************)
IsRecBody(b) == b.kind = "html" /\ b.of.kind = "rec"

IsListBody(b) == b.kind = "html" /\ b.of.kind \in {"hits", "frame"}

\* soup.select('a[href*="/record=b"]') joined to the page URL (409-410)
RecordAnchors(w, b) ==
    IF IsListBody(b)
    THEN [i \in 1..Len(AnchorsOf(w, b.of.id)) |-> RecUrl(AnchorsOf(w, b.of.id)[i])]
    ELSE <<>>

\* the frameset anchors and frame / iframe sources of the page (429-432)
PageLeads(w, b) == IF IsListBody(b) THEN LeadsOf(w, b.of.id) ELSE <<>>

\* soup.select_one("tr.bibItemsEntry, tr[class*=bibItemsEntry]") (561-563)
HasHoldingsRowNever(b) == FALSE

HasHoldingsRow(b) == IsRecBody(b) /\ RecordPage(b.of.id).marker

\* any(tag in page_lc for tag in _ERS_TAGS) (568-569)
HasErsTagOrEmpty(b) == ~IsRecBody(b) \/ RecordPage(b.of.id).ers

HasErsTag(b) == IsRecBody(b) /\ RecordPage(b.of.id).ers

\* any(tag in html for tag in _NONBOOK_TAGS) (534-535)
HasNonbookTag(b) == IsRecBody(b) /\ RecordPage(b.of.id).nonbook

(***************************************************************************)
(* URL canonicaliser.  A hit-list URL loses its save parameters and a      *)
(* slice counter that ends the string; any other URL loses its query.      *)
(***************************************************************************)
NotSave(tok) == tok # "save"

_FRSCRUB(qq) ==
    SelectSeq(IF qq # <<>> /\ qq[Len(qq)] = "slice" THEN SubSeq(qq, 1, Len(qq) - 1) ELSE qq,
              NotSave)

\* _uparse.unquote of one parameter (326-327): "enc" is the parameter "arg"
\* with a character percent-encoded ("%41"), "enc2" the same with the percent
\* sign encoded as well ("%2541"); one pass decodes one level
unquote(tok) == IF tok = "enc2" THEN "enc" ELSE IF tok = "enc" THEN "arg" ELSE tok

_canon(url) ==
    IF url.kind = "hits"
    THEN Url(url.kind, url.id, _FRSCRUB([i \in 1..Len(url.q) |-> unquote(url.q[i])]))
    ELSE Url(url.kind, url.id, <<>>)

_MAX_VISITED == 13

\* any(bad in nxt or nxt.startswith(bad) for bad in _BAD_LEADS) (438)
IsBadLeadNever(nxt) == FALSE

IsBadLead(nxt) == nxt.kind = "bad" \/ \E i \in 1..Len(nxt.q) : nxt.q[i] = "save"

(***************************************************************************)
(* Record classifier.  mem = [cache, ers]: HTML_CACHE and ERS_CACHE.       *)
(***************************************************************************)
Verdict(mem, v, r) == [mem |-> mem, val |-> v, raised |-> r]

\* "if rec_url in ERS_CACHE" (555)
MemoHitNever(ers, rec_url) == FALSE

MemoHit(ers, rec_url) == rec_url \in DOMAIN ers

_is_eresource(mem, w, rec_url) ==
    IF MemoHit(mem.ers, rec_url)
    THEN Verdict(mem, mem.ers[rec_url], FALSE)
    ELSE LET d == _download(mem.cache, rec_url, NetOutcomes(w, rec_url)) IN
         IF d.raised
         THEN Verdict([mem EXCEPT !.cache = d.cache], FALSE, TRUE)
         ELSE LET eres == IF HasHoldingsRow(d.ret) THEN FALSE ELSE HasErsTag(d.ret)
              IN  Verdict([cache |-> d.cache, ers |-> CachePut(mem.ers, rec_url, eres)],
                          eres, FALSE)

_is_nonbook(mem, w, rec_url) ==
    LET d == _download(mem.cache, rec_url, NetOutcomes(w, rec_url)) IN
    IF d.raised
    THEN Verdict([mem EXCEPT !.cache = d.cache], FALSE, TRUE)
    ELSE Verdict([mem EXCEPT !.cache = d.cache], HasNonbookTag(d.ret), FALSE)

(***************************************************************************)
(* Crawl frontier: collect_record_links(start_url, limit).                 *)
(* A crawl is the record                                                   *)
(*   mem         HTML_CACHE and ERS_CACHE                                  *)
(*   q, seen_pages, out, limit   the locals of the function (0 = None)     *)
(*   opened      the pages fetched, in order ("collect open" lines)        *)
(*   verdicts    the verdict lines, in order                               *)
(*   status      "run", or how the call ended: "done" (return out at 426   *)
(*               or 447), "abort" (return at 444), "raised" (an exception  *)
(*               of _download left the function)                           *)
(*   ret         the list the call returned                                *)
(*   scans       the record bodies the classifier parsed or searched for   *)
(*               phrases, in order: [rec, fn], fn "eres" or "nonbook"      *)
(*   skipped     the URLs dequeued and dropped because their key was in    *)
(*               seen_pages (401-402)                                      *)
(*   fed         the opened pages one of whose leads was appended to q     *)
(***************************************************************************)
NewCrawl(mem, start_url, limit) ==
    [mem |-> mem, q |-> <<start_url>>, seen_pages |-> {}, out |-> <<>>,
     limit |-> limit, opened |-> <<>>, verdicts |-> <<>>, status |-> "run",
     ret |-> <<>>, scans |-> <<>>, skipped |-> {}, fed |-> {}]

InSeq(x, sq) == \E i \in 1..Len(sq) : sq[i] = x

LogNone(st, rec, tag) == st

Log(st, rec, tag) == [st EXCEPT !.verdicts = Append(@, [rec |-> rec, tag |-> tag])]

\* the body of rec is inspected by _is_eresource (558-569) or _is_nonbook
\* (534-535)
Scan(st, rec, fn) == [st EXCEPT !.scans = Append(@, [rec |-> rec, fn |-> fn])]

Raise(st, mem) == [st EXCEPT !.mem = mem, !.status = "raised"]

\* "continue" after a skipped anchor: the loop goes on with the next one
AfterSkipBreak(i, n) == n + 1

AfterSkip(i, n) == i + 1

\* "if limit and len(out) >= limit" (425); n is len(out), limit 0 is None
LimitReachedNever(limit, n) == FALSE

LimitReached(limit, n) == limit # 0 /\ n >= limit

\* one pass of the for loop over the record anchors (409-426): anchor i of
\* recs; n is the index the loop goes on with after a skipped anchor
RECURSIVE Harvest(_, _, _, _)
HarvestNonbook(st0, w, recs, i, e, n) ==
    LET rec == recs[i]
        st  == IF n.raised THEN st0 ELSE Scan(st0, rec, "nonbook")
        n1  == AfterSkip(i, Len(recs))
        st2 == Log([st EXCEPT !.mem = n.mem, !.out = Append(@, rec)], rec, "+ physical")
    IN  IF n.raised THEN Raise(st, n.mem)
        ELSE IF n.val
        THEN Harvest(Log([st EXCEPT !.mem = n.mem], rec, "- non-book"), w, recs, n1)
        ELSE IF InSeq(rec, st.out)
        THEN Harvest(Log([st EXCEPT !.mem = n.mem], rec, "- duplicate"), w, recs, n1)
        ELSE IF LimitReached(st.limit, Len(st.out) + 1)
        THEN [st2 EXCEPT !.status = "done", !.ret = Append(st.out, rec)]
        ELSE Harvest(st2, w, recs, i + 1)

HarvestEres(st0, w, recs, i, e) ==
    LET st == IF e.raised \/ MemoHit(st0.mem.ers, recs[i]) THEN st0
              ELSE Scan(st0, recs[i], "eres")
    IN
    IF e.raised THEN Raise(st, e.mem)
    ELSE IF e.val
    THEN Harvest(Log([st EXCEPT !.mem = e.mem], recs[i], "- e-resource"), w, recs,
                 AfterSkip(i, Len(recs)))
    ELSE Once({HarvestNonbook(st, w, recs, i, e, n) : n \in {_is_nonbook(e.mem, w, recs[i])}})

\* the for loop over the record anchors of a page (409-426), from anchor i
Harvest(st0, w, recs0, i) ==
    Once({IF i > Len(recs) THEN st
          ELSE Once({HarvestEres(st, w, recs, i, e) : e \in {_is_eresource(st.mem, w, recs[i])}}) :
          st \in {st0}, recs \in {recs0}})

\* what the crawl returns when the visited-page cap trips (442-444)
AbortResultEmpty(out) == <<>>

AbortResult(out) == out

\* one pass of the for loop over the leads of a page (434-445): lead i
RECURSIVE Follow(_, _, _)
FollowLead(st, leads, i) ==
    LET nxt == leads[i] IN
        IF nxt.kind = "empty" THEN Follow(st, leads, i + 1)
        ELSE IF IsBadLead(nxt) THEN Follow(st, leads, i + 1)
        ELSE IF _canon(nxt) \in st.seen_pages THEN Follow(st, leads, i + 1)
        ELSE IF Cardinality(st.seen_pages) >= _MAX_VISITED
        THEN [st EXCEPT !.status = "abort", !.ret = AbortResult(st.out)]
        ELSE Follow([st EXCEPT !.q = Append(@, nxt),
                               !.fed = @ \cup {st.opened[Len(st.opened)]}], leads, i + 1)

\* the for loop over the leads of a page (434-445), from lead i
Follow(st0, leads0, i) ==
    Once({IF i > Len(leads) THEN st ELSE FollowLead(st, leads, i) :
          st \in {st0}, leads \in {leads0}})

\* "while q" is false: return out (447)
FinishAt(st) ==
    IF st.status = "run" /\ st.q = <<>>
    THEN [st EXCEPT !.status = "done", !.ret = st.out]
    ELSE st

Finish(st0) == Once({FinishAt(st) : st \in {st0}})

\* a dequeued URL whose key was seen: it was popped, the loop continues
OnSeenRequeue(q) == Append(Tail(q), Head(q))

OnSeen(q) == Tail(q)

\* the rest of the iteration once the anchors are harvested (428-445)
AfterHarvestNoLeads(st2, leads) ==
    IF st2.status # "run" THEN st2 ELSE Finish(st2)

AfterHarvest(st2, leads) ==
    IF st2.status # "run" THEN st2 ELSE Finish(Follow(st2, leads, 1))

\* the iteration for a page not seen before, d its download (403-445)
OpenPage(st, w, url, d) ==
    LET st1 == [st EXCEPT !.q = Tail(@), !.seen_pages = @ \cup {_canon(url)},
                          !.opened = Append(@, url), !.mem.cache = d.cache]
    IN  IF d.raised THEN [st1 EXCEPT !.status = "raised"]
        ELSE Once({AfterHarvest(st2, PageLeads(w, d.ret)) :
                   st2 \in {Harvest(st1, w, RecordAnchors(w, d.ret), 1)}})

\* "if key in seen_pages" (401)
SeenBeforeNever(seen_pages, key) == FALSE

SeenBefore(seen_pages, key) == key \in seen_pages

\* one iteration of "while q" (398-445)
CrawlStep(st0, w) ==
    Once({IF SeenBefore(st.seen_pages, _canon(Head(st.q)))
          THEN Finish([st EXCEPT !.q = OnSeen(@), !.skipped = @ \cup {Head(st.q)}])
          ELSE Once({OpenPage(st, w, Head(st.q), d) :
                     d \in {_download(st.mem.cache, Head(st.q), NetOutcomes(w, Head(st.q)))}}) :
          st \in {st0}})

\* the whole call
RECURSIVE CrawlRun(_, _)
CrawlRun(st0, w) ==
    Once({IF st.status # "run" THEN st ELSE CrawlRun(CrawlStep(st, w), w) : st \in {st0}})

collect_record_links(mem, w, start_url, limit) == CrawlRun(NewCrawl(mem, start_url, limit), w)

(***************************************************************************)
(* Matcher.  A title is a sequence of segments: a word, or a parenthesised *)
(* group "(word)".  An author is [comma, last]: with comma the words       *)
(* before the comma of "Last, First", without it all the words of the      *)
(* string.                                                                 *)
(***************************************************************************)
ParenSegs == {"(novel)", "(dune)"}

IsParen(seg) == seg \in ParenSegs

\* the word inside a parenthesised group
Inner(seg) == IF seg = "(novel)" THEN "novel" ELSE IF seg = "(dune)" THEN "dune" ELSE seg

\* re.sub(r"\s*\(.*?\)\s*$", "", t): when the title ends with ")" the leftmost
\* match starts at the first "(" of the title
FirstParen(t) == CHOOSE i \in 1..Len(t) : IsParen(t[i]) /\ \A j \in 1..(i - 1) : ~IsParen(t[j])

strip_parens(t) ==
    IF t # <<>> /\ IsParen(t[Len(t)]) THEN SubSeq(t, 1, FirstParen(t) - 1) ELSE t

_tokenise(t) == {Inner(t[i]) : i \in 1..Len(t)}

\* the second definition of _surname (453-455) is the one bound at call time
_surname(a) ==
    IF a.comma
    THEN (IF a.last = <<>> THEN [raised |-> TRUE, val |-> <<>>]
          ELSE [raised |-> FALSE, val |-> <<a.last[1]>>])
    ELSE (IF a.last = <<>> THEN [raised |-> FALSE, val |-> <<>>]
          ELSE [raised |-> FALSE, val |-> <<a.last[Len(a.last)]>>])

\* the letters of the words of the model, ASCII-folded as _tokenise and
\* _surname leave them ("Aleksijevitš" arrives as "aleksijevits")
Spelling(tok) ==
    CASE tok = "herbert"  -> <<"h", "e", "r", "b", "e", "r", "t">>
      [] tok = "frank"    -> <<"f", "r", "a", "n", "k">>
      [] tok = "lynch"    -> <<"l", "y", "n", "c", "h">>
      [] tok = "david"    -> <<"d", "a", "v", "i", "d">>
      [] tok = "dune"     -> <<"d", "u", "n", "e">>
      [] tok = "dunes"    -> <<"d", "u", "n", "e", "s">>
      [] tok = "messiah"  -> <<"m", "e", "s", "s", "i", "a", "h">>
      [] tok = "children" -> <<"c", "h", "i", "l", "d", "r", "e", "n">>
      [] tok = "of"       -> <<"o", "f">>
      [] tok = "novel"    -> <<"n", "o", "v", "e", "l">>
      [] tok = "aleksijevits" -> <<"a", "l", "e", "k", "s", "i", "j", "e", "v", "i", "t", "s">>
      [] tok = "alexievich"   -> <<"a", "l", "e", "x", "i", "e", "v", "i", "c", "h">>
      [] tok = "svetlana"     -> <<"s", "v", "e", "t", "l", "a", "n", "a">>
      [] tok = "tsernoboli"   -> <<"t", "s", "e", "r", "n", "o", "b", "o", "l", "i">>
      [] tok = "palve"        -> <<"p", "a", "l", "v", "e">>
      [] OTHER            -> <<tok>>

\* the character at position i, a blank outside the word
Ch(st, i) == IF i \in 1..Len(st) THEN st[i] ELSE " "

\* re.sub(r"[jy][eo]v", "ev", s) (285)
RECURSIVE Glide(_)
Glide(st) ==
    IF st = <<>> THEN <<>>
    ELSE IF st[1] \in {"j", "y"} /\ Ch(st, 2) \in {"e", "o"} /\ Ch(st, 3) = "v"
    THEN <<"e", "v">> \o Glide(SubSeq(st, 4, Len(st)))
    ELSE <<st[1]>> \o Glide(Tail(st))

\* s.replace(pat, repl) for a pattern of two letters
RECURSIVE Replace(_, _, _)
Replace(st, pat, repl) ==
    IF st = <<>> THEN <<>>
    ELSE IF Len(st) >= 2 /\ SubSeq(st, 1, 2) = pat
    THEN <<repl>> \o Replace(SubSeq(st, 3, Len(st)), pat, repl)
    ELSE <<st[1]>> \o Replace(Tail(st), pat, repl)

\* the loop over _MULTI (262-266, 288-289), in the order of the dict
Multi(st) ==
    Replace(Replace(Replace(Replace(Replace(Replace(st,
        <<"o", "e">>, "o"), <<"y", "o">>, "o"), <<"j", "o">>, "o"),
        <<"i", "o">>, "o"), <<"y", "a">>, "a"), <<"j", "a">>, "a")

EndsWith(st, suf) ==
    Len(st) >= Len(suf) /\ SubSeq(st, Len(st) - Len(suf) + 1, Len(st)) = suf

\* _SK_FAMILY.sub("sk", s) (269, 298)
SkFamily(st) ==
    IF EndsWith(st, <<"s", "k", "i", "j">>) \/ EndsWith(st, <<"s", "k", "y", "i">>)
    THEN SubSeq(st, 1, Len(st) - 2)
    ELSE IF EndsWith(st, <<"s", "k", "y">>) \/ EndsWith(st, <<"s", "k", "i">>)
    THEN SubSeq(st, 1, Len(st) - 1)
    ELSE st

\* _DBL_LETTER.sub(r"\1", s) (270, 299)
RECURSIVE Collapse(_)
Collapse(st) ==
    IF Len(st) < 2 THEN st
    ELSE IF st[1] = st[2] THEN Collapse(Tail(st))
    ELSE <<st[1]>> \o Collapse(Tail(st))

Vowels == {"a", "e", "i", "o", "u", "y"}

DmOut(code, skip) == [code |-> code, skip |-> skip]

\* doublemetaphone (the package metaphone, imported at 23): the letters
\* the primary code gets for the character at pos, and the number of
\* characters consumed; the cases of the algorithm that the words of the
\* model reach.  The code has no length limit.
DmStep(st, pos) ==
    LET c == st[pos]
        n1 == Ch(st, pos + 1)
        n2 == Ch(st, pos + 2)
        p1 == Ch(st, pos - 1)
    IN  CASE c \in Vowels -> DmOut(IF pos = 1 THEN <<"A">> ELSE <<>>, 1)
          [] c = "b" -> DmOut(<<"P">>, IF n1 = "b" THEN 2 ELSE 1)
          [] c = "c" ->
               IF n1 = "h"
               THEN IF n2 \in {"t", "s"}
                       \/ ((pos = 1 \/ p1 \in {"a", "o", "u", "e"})
                             /\ n2 \in {"l", "r", "n", "m", "b", "h", "f", "v", "w", " "})
                    THEN DmOut(<<"K">>, 2)
                    ELSE DmOut(<<"X">>, 2)
               ELSE IF n1 \in {"i", "e", "y"} THEN DmOut(<<"S">>, 2)
               ELSE DmOut(<<"K">>, 1)
          [] c = "d" -> DmOut(<<"T">>, IF n1 \in {"t", "d"} THEN 2 ELSE 1)
          [] c = "f" -> DmOut(<<"F">>, IF n1 = "f" THEN 2 ELSE 1)
          [] c = "h" ->
               IF (pos = 1 \/ p1 \in Vowels) /\ n1 \in Vowels
               THEN DmOut(<<"H">>, 2) ELSE DmOut(<<>>, 1)
          [] c = "k" -> DmOut(<<"K">>, IF n1 = "k" THEN 2 ELSE 1)
          [] c = "l" -> DmOut(<<"L">>, IF n1 = "l" THEN 2 ELSE 1)
          [] c = "m" -> DmOut(<<"M">>, IF n1 = "m" THEN 2 ELSE 1)
          [] c = "n" -> DmOut(<<"N">>, IF n1 = "n" THEN 2 ELSE 1)
          [] c = "p" ->
               IF n1 = "h" THEN DmOut(<<"F">>, 2)
               ELSE DmOut(<<"P">>, IF n1 \in {"p", "b"} THEN 2 ELSE 1)
          [] c = "r" -> DmOut(<<"R">>, IF n1 = "r" THEN 2 ELSE 1)
          [] c = "s" ->
               IF n1 = "i" /\ n2 \in {"o", "a"} THEN DmOut(<<"S">>, 3)
               ELSE IF pos = Len(st) /\ p1 = "i" /\ Ch(st, pos - 2) \in {"a", "o"}
               THEN DmOut(<<>>, 1)
               ELSE DmOut(<<"S">>, IF n1 \in {"s", "z"} THEN 2 ELSE 1)
          [] c = "t" ->
               IF (n1 = "i" /\ n2 = "a") \/ (n1 = "c" /\ n2 = "h") THEN DmOut(<<"X">>, 3)
               ELSE DmOut(<<"T">>, IF n1 \in {"t", "d"} THEN 2 ELSE 1)
          [] c = "v" -> DmOut(<<"F">>, IF n1 = "v" THEN 2 ELSE 1)
          [] c = "x" -> DmOut(<<"K", "S">>, IF n1 \in {"c", "x"} THEN 2 ELSE 1)
          [] OTHER -> DmOut(<<>>, 1)

RECURSIVE doublemetaphone(_, _)
doublemetaphone(st, pos) ==
    IF pos > Len(st) THEN <<>>
    ELSE DmStep(st, pos).code \o doublemetaphone(st, pos + DmStep(st, pos).skip)

\* the word is ASCII letters already, which translate(_DEFANG), the NFKD
\* fold and _NONAZ leave alone (292-300)
_canon_name(tok) ==
    LET s    == Collapse(SkFamily(Multi(Glide(Spelling(tok)))))
        code == doublemetaphone(s, 1)
    IN  IF code = <<>> THEN s ELSE code

\* _ester_fields of a downloaded record body (514-521)
_ester_fields(b) ==
    IF IsRecBody(b)
    THEN [ttl |-> RecordPage(b.of.id).ttl, aut |-> RecordPage(b.of.id).aut]
    ELSE [ttl |-> <<>>, aut |-> <<>>]

\* the title test (596-609)
TitleTestAny(wanted_toks, r_ttl, record_toks) == TRUE

TitleTestStrict(wanted_toks, r_ttl, record_toks) ==
    wanted_toks # {} /\ wanted_toks \subseteq record_toks

TitleTestContains(wanted_toks, r_ttl, record_toks) == wanted_toks \subseteq record_toks

TitleTest(wanted_toks, r_ttl, record_toks) ==
    IF wanted_toks = {} THEN TRUE
    ELSE IF Cardinality(wanted_toks) > 1 THEN wanted_toks \subseteq record_toks
    ELSE \E word \in wanted_toks : ~IsParen(r_ttl[1]) /\ r_ttl[1] = word

AuthorTest(surname_parts, record_toks) ==
    surname_parts = {}
      \/ {_canon_name(p) : p \in surname_parts} \subseteq {_canon_name(t) : t \in record_toks}

\* the locals ttl_ok and auth_ok (596-618) for the record fields f and the
\* surname sn
MatchLocals(w_ttl, sn, f) ==
    LET record_toks == _tokenise(f.ttl) \cup _tokenise(f.aut)
    IN  [ttl_ok  |-> TitleTest(_tokenise(strip_parens(w_ttl)), f.ttl, record_toks),
         auth_ok |-> AuthorTest(_tokenise(sn), record_toks)]

\* the result of a call: the verdict, and the locals for the record
MatchRes(mem, v, r, f, t, a) ==
    [mem |-> mem, val |-> v, raised |-> r, r_ttl |-> f.ttl, r_aut |-> f.aut,
     ttl_ok |-> t, auth_ok |-> a]

_looks_like_same_book(mem, w, w_ttl, w_aut, rec_url) ==
    LET d  == _download(mem.cache, rec_url, NetOutcomes(w, rec_url))
        f  == _ester_fields(d.ret)
        m2 == [mem EXCEPT !.cache = d.cache]
        sn == _surname(w_aut)
        l  == MatchLocals(w_ttl, sn.val, f)
    IN  IF d.raised THEN MatchRes(m2, FALSE, TRUE, f, FALSE, FALSE)
        ELSE IF f.ttl = <<>> THEN MatchRes(m2, FALSE, FALSE, f, FALSE, FALSE)
        ELSE IF sn.raised THEN MatchRes(m2, FALSE, TRUE, f, l.ttl_ok, FALSE)
        ELSE MatchRes(m2, l.ttl_ok /\ l.auth_ok, FALSE, f, l.ttl_ok, l.auth_ok)

(***************************************************************************)
(* Search dispatcher: probe, by_isbn, by_title_index, by_keyword, search.  *)
(***************************************************************************)
ProbeLimit == 4

\* the probes after the ISBN probe, in the order of the tuple at 1408-1412
ProbeOrderSwapped == <<"kw-author+title", "title-idx", "kw-title-only">>

ProbeOrder == <<"title-idx", "kw-author+title", "kw-title-only">>

\* the query URL of a probe (1364-1382); by_keyword("", t) and
\* by_keyword(a, t) with an empty a build the same URL
StartUrl(w, label) ==
    CASE label = "keyword-isbn" -> PageUrl(0, <<"arg">>)
      [] label = "title-idx"    -> PageUrl(1, <<"arg">>)
      [] label = "kw-author+title" ->
            IF ~w.entry.author.comma /\ w.entry.author.last = <<>>
            THEN PageUrl(3, <<"arg">>) ELSE PageUrl(2, <<"arg">>)
      [] OTHER -> PageUrl(3, <<"arg">>)

probe(mem, w, label) == collect_record_links(mem, w, StartUrl(w, label), ProbeLimit)

\* "for rec in by_isbn(isbn): return [rec]" (1398-1399)
IsbnPickAll(links) == links

IsbnPickLast(links) == <<links[Len(links)]>>

IsbnPick(links) == <<links[1]>>

\* "if _looks_like_same_book(title, author, rec): yield rec" (1404-1405)
AcceptsAny(v) == TRUE

Accepts(v) == v.val

\* one candidate of _candidates: v is the Matcher's answer for link i
RECURSIVE Candidates(_, _, _, _, _, _, _)
Candidate(w, lbl, title, links, i, calls, v) ==
    LET c2 == Append(calls, [probe |-> lbl, rec |-> links[i], ok |-> v.val])
    IN  IF v.raised THEN [mem |-> v.mem, calls |-> calls, hit |-> 0, raised |-> TRUE]
        ELSE IF Accepts(v) THEN [mem |-> v.mem, calls |-> c2, hit |-> i, raised |-> FALSE]
        ELSE Candidates(v.mem, w, lbl, title, links, i + 1, c2)

\* _candidates over the links of one probe, from link i: the Matcher is asked
\* about one record after the other until it accepts one
Candidates(mem0, w, lbl, title, links0, i, calls0) ==
    Once({IF i > Len(links)
          THEN [mem |-> mem, calls |-> calls, hit |-> 0, raised |-> FALSE]
          ELSE Once({Candidate(w, lbl, title, links, i, calls, v) :
                     v \in {_looks_like_same_book(mem, w, title, w.entry.author, links[i])}}) :
          mem \in {mem0}, links \in {links0}, calls \in {calls0}})

EmptyFn == [u \in {} |-> FALSE]

EmptyMem == [cache |-> EmptyFn, ers |-> EmptyFn]

Mem == [cache |-> HTML_CACHE, ers |-> ERS_CACHE]

IdleCrawl == [NewCrawl(EmptyMem, NoUrl, 0) EXCEPT !.q = <<>>, !.status = "idle"]

IdleSrch == [pc |-> "idle", probes |-> <<>>, links |-> <<>>, calls |-> <<>>,
             ret |-> <<>>, by |-> "none"]

IdleDl == [url |-> NoUrl, ret |-> EmptyBody, raised |-> FALSE, reqs |-> 0, last |-> "none",
           failed |-> {}, wasfailed |-> FALSE,
           prev |-> [kind |-> "none", of |-> NoUrl, v |-> 0]]

IdleFound ==
    [RECORD_URL |-> EmptyFn, GR_META |-> EmptyFn, NOT_FOUND |-> <<>>, NO_KOHAL |-> <<>>,
     rows |-> <<>>, copies |-> EmptyFn, meta |-> EmptyFn, tot |-> 0, raised |-> FALSE]

\* the values a step of search leaves in the variables
SearchUpdate(c, s) ==
    /\ crawl' = [c EXCEPT !.mem = EmptyMem]
    /\ srch' = s
    /\ UNCHANGED <<world, dl, lastret, found, hold, cn, mt, run, wk>>

\* (1) the ISBN probe (1394-1399)
SearchIsbn ==
    /\ srch.pc = "isbn"
    /\ IF world.entry.isbn
       THEN \E c \in {probe(Mem, world, "keyword-isbn")} :
            LET s1 == [srch EXCEPT !.probes = Append(@, "keyword-isbn"),
                                   !.links = Append(@, c.ret)]
            IN  /\ HTML_CACHE' = c.mem.cache
                /\ ERS_CACHE' = c.mem.ers
                /\ SearchUpdate(c,
                     IF c.status = "raised" THEN [s1 EXCEPT !.pc = "raised"]
                     ELSE IF c.ret # <<>>
                     THEN [s1 EXCEPT !.pc = "returned", !.ret = IsbnPick(c.ret),
                                     !.by = "keyword-isbn"]
                     ELSE [s1 EXCEPT !.pc = ProbeOrder[1]])
       ELSE /\ srch' = [srch EXCEPT !.pc = ProbeOrder[1]]
            /\ UNCHANGED <<world, HTML_CACHE, ERS_CACHE, dl, lastret, crawl, found, hold, cn, mt, run, wk>>

\* (2)-(4) the k-th verified probe (1401-1417)
VerifiedProbe(k) ==
    /\ srch.pc = ProbeOrder[k]
    /\ \E c \in {probe(Mem, world, ProbeOrder[k])} :
       \E m \in {Candidates(c.mem, world, ProbeOrder[k], strip_parens(world.entry.title),
                            c.ret, 1, srch.calls)} :
       LET lbl == ProbeOrder[k]
           s1  == [srch EXCEPT !.probes = Append(@, lbl), !.links = Append(@, c.ret)]
       IN  IF c.status = "raised"
           THEN /\ HTML_CACHE' = c.mem.cache
                /\ ERS_CACHE' = c.mem.ers
                /\ SearchUpdate(c, [s1 EXCEPT !.pc = "raised"])
           ELSE /\ HTML_CACHE' = m.mem.cache
                /\ ERS_CACHE' = m.mem.ers
                /\ SearchUpdate(c,
                     IF m.raised THEN [s1 EXCEPT !.pc = "raised", !.calls = m.calls]
                     ELSE IF m.hit # 0
                     THEN [s1 EXCEPT !.pc = "returned", !.calls = m.calls,
                                     !.ret = <<c.ret[m.hit]>>, !.by = lbl]
                     ELSE IF k < Len(ProbeOrder)
                     THEN [s1 EXCEPT !.pc = ProbeOrder[k + 1], !.calls = m.calls]
                     ELSE [s1 EXCEPT !.pc = "returned", !.calls = m.calls])

SearchTitleIdx == VerifiedProbe(1)

SearchKwAuthorTitle == VerifiedProbe(2)

SearchKwTitleOnly == VerifiedProbe(3)

(***************************************************************************)
(* Holdings: holdings(rec) and its three tiers.  A holdings page is one of *)
(* the pages HoldPages; its rows are tr.bibItemsEntry rows with the given  *)
(* number of cells.  A row is (location, call number, status); the         *)
(* location tells which view it was read from.                             *)
(***************************************************************************)
HoldPages == 0..5

Item(cells, lib, sta) == [cells |-> cells, lib |-> lib, sta |-> sta]

\* the item rows of page version v: the number of td cells, the library
\* named in the first cell and the text of the status cell
HoldingsPage(v) ==
    CASE v = 0 -> <<>>
      [] v = 1 -> <<Item(3, "TLUAR", "Kohal lugemissaalis")>>
      [] v = 2 -> <<Item(2, "TLUAR", "")>>
      [] v = 3 -> <<Item(4, "TLUAR", "Kohal"), Item(3, "TlnRK", "Tahtaeg 01-12-25")>>
      [] v = 4 -> <<Item(2, "TLUAR", ""), Item(3, "TLUAR", "Kohal")>>
      [] OTHER -> <<Item(3, "XYZ", "Tahtaeg 01-12-25")>>

HoldUrl(view, bib) == Url(view, bib, <<>>)

\* a location: the text of the location cell (the library it names), and
\* the view the row was read from
Loc(view, lib) == [view |-> view, lib |-> lib]

Row(loc, call, sta) == [loc |-> loc, call |-> call, sta |-> sta]

\* str.upper of a status text (654, 694)
upper(sta) ==
    CASE sta = "Kohal" -> "KOHAL"
      [] sta = "Kohal lugemissaalis" -> "KOHAL LUGEMISSAALIS"
      [] sta = "Tahtaeg 01-12-25" -> "TAHTAEG 01-12-25"
      [] OTHER -> sta

\* the rows _scrape_holdings_html reads from a body (645-655): the rows with
\* at least three cells, the status in upper case
RowsOf(b) ==
    IF b.kind = "html" /\ b.of.kind \in {"holdings~", "holdingsa~"}
    THEN LET items == HoldingsPage(b.v)
             keep  == SelectSeq([i \in 1..Len(items) |-> i], LAMBDA i : items[i].cells >= 3)
         IN  [k \in 1..Len(keep) |->
                Row(Loc(b.of.kind, items[keep[k]].lib), keep[k], upper(items[keep[k]].sta))]
    ELSE <<>>

\* _scrape_holdings_html(url): the download decides, o is what the network
\* does for url
_scrape_holdings_html(cache, url, o) ==
    LET d == _download(cache, url, <<o, o, o>>)
    IN  [cache |-> d.cache, raised |-> d.raised, rows |-> IF d.raised THEN <<>> ELSE RowsOf(d.ret)]

\* _copies_via_api(bib): any exception of the request gives [] (677-685),
\* else one row per item object; the first item is on the shelf
_copies_via_api(bib, o) ==
    IF o.kind = "ok"
    THEN [k \in 1..o.items |->
            Row(Loc("epik", "RaRa"), k, upper(IF k = 1 THEN "Kohal" ELSE "Tahtaeg 01-12-25"))]
    ELSE <<>>

\* "if rows: return rows" (723-724, 729-730)
HasRowsNever(rows) == FALSE

HasRows(rows) == rows # <<>>

\* a holdings call: has_bib - the record URL holds a bib id; net - what the
\* network does for the two views and the JSON service; calls - the tiers
\* invoked, got - what each returned; pc - "start", "alt", "api",
\* "returned", "raised"
NewHold(has_bib, net) ==
    [pc |-> "start", has_bib |-> has_bib, net |-> net, calls |-> <<>>, got |-> <<>>,
     ret |-> <<>>]

IdleHold == [NewHold(FALSE, [primary |-> Out("ok", EmptyBody), alt |-> Out("ok", EmptyBody),
                             api |-> [kind |-> "error", items |-> 0]])
               EXCEPT !.pc = "idle"]

\* an HTML tier was invoked: view, its result r, the tier to go on with
AfterHtmlTier(view, r, nextpc) ==
    LET h == [hold EXCEPT !.calls = Append(@, view), !.got = Append(@, r.rows)]
    IN  IF r.raised THEN [h EXCEPT !.pc = "raised"]
        ELSE IF HasRows(r.rows) THEN [h EXCEPT !.pc = "returned", !.ret = r.rows]
        ELSE [h EXCEPT !.pc = nextpc]

\* the bib id and step 1 (714-724)
HoldPrimary ==
    /\ hold.pc = "start"
    /\ IF ~hold.has_bib
       THEN /\ hold' = [hold EXCEPT !.pc = "returned", !.ret = <<>>]
            /\ UNCHANGED HTML_CACHE
       ELSE \E r \in {_scrape_holdings_html(HTML_CACHE, HoldUrl("holdings~", 1),
                                             hold.net.primary)} :
            /\ HTML_CACHE' = r.cache
            /\ hold' = AfterHtmlTier("holdings~", r, "alt")
    /\ UNCHANGED <<world, ERS_CACHE, dl, lastret, crawl, srch, found, cn, mt, run, wk>>

\* step 2 (727-730)
HoldAlternate ==
    /\ hold.pc = "alt"
    /\ \E r \in {_scrape_holdings_html(HTML_CACHE, HoldUrl("holdingsa~", 1), hold.net.alt)} :
        /\ HTML_CACHE' = r.cache
        /\ hold' = AfterHtmlTier("holdingsa~", r, "api")
    /\ UNCHANGED <<world, ERS_CACHE, dl, lastret, crawl, srch, found, cn, mt, run, wk>>

\* step 3 (733-735)
HoldApi ==
    /\ hold.pc = "api"
    /\ \E rows \in {_copies_via_api(1, hold.net.api)} :
        hold' = [hold EXCEPT !.pc = "returned", !.calls = Append(@, "api"),
                             !.got = Append(@, rows), !.ret = rows]
    /\ UNCHANGED <<world, HTML_CACHE, ERS_CACHE, dl, lastret, crawl, srch, found, cn, mt, run, wk>>

\* what the network does for the holdings of an accepted record
ProcNets ==
    {[primary |-> o1, alt |-> Out("ok", HtmlBody(HoldUrl("holdingsa~", 1), 0)), api |-> o3] :
        o1 \in {Out("ok", HtmlBody(HoldUrl("holdings~", 1), v)) : v \in {0, 1, 3, 5}}
                 \cup {Out("timeout", EmptyBody), Out("connerr", EmptyBody)},
        o3 \in {[kind |-> "error", items |-> 0], [kind |-> "ok", items |-> 2]}}

\* holdings(rec) as one call: net is what the network does for the two
\* views and the JSON service
holdings(cache, has_bib, net) ==
    IF ~has_bib THEN [cache |-> cache, raised |-> FALSE, rows |-> <<>>]
    ELSE LET r1 == _scrape_holdings_html(cache, HoldUrl("holdings~", 1), net.primary)
             r2 == _scrape_holdings_html(r1.cache, HoldUrl("holdingsa~", 1), net.alt)
         IN  IF r1.raised \/ HasRows(r1.rows) THEN r1
             ELSE IF r2.raised \/ HasRows(r2.rows) THEN r2
             ELSE [cache |-> r2.cache, raised |-> FALSE, rows |-> _copies_via_api(1, net.api)]

(***************************************************************************)
(* process_title: the record of the entry, then its holdings counted.      *)
(***************************************************************************)
\* resolve(loc) (737-744): the library named by the location text
resolve(loc) ==
    CASE loc.lib = "TLUAR" -> [name |-> "Tallinna Ulikooli Akadeemiline RK",
                               addr |-> "Ravala puiestee 10, Tallinn, Estonia"]
      [] loc.lib = "TlnRK" -> [name |-> "Tallinna Keskraamatukogu",
                               addr |-> "Estonia pst 8, Tallinn, Estonia"]
      [] loc.lib = "RaRa"  -> [name |-> "Eesti Rahvusraamatukogu",
                               addr |-> "Tonismagi 2, Tallinn, Estonia"]
      [] OTHER -> [name |-> loc.lib, addr |-> ""]

\* '"KOHAL" in status' (1482)
HasKohalAny(sta) == TRUE

HasKohal(sta) == sta \in {"KOHAL", "KOHAL LUGEMISSAALIS"}

\* copies[k] += 1 on a Counter
Incr(copies, k) == CachePut(copies, k, IF k \in DOMAIN copies THEN copies[k] + 1 ELSE 1)

\* the for loop over the holdings rows (1478-1487), from row i
RECURSIVE Tally(_, _, _, _)
Tally(rows, i, copies, meta) ==
    IF i > Len(rows) THEN [copies |-> copies, meta |-> meta]
    ELSE LET key == resolve(rows[i].loc)
         IN  Tally(rows, i + 1,
                   IF HasKohal(rows[i].sta) THEN Incr(copies, key) ELSE copies,
                   CachePut(meta, key, key))

\* sum(copies.values())
SumZero(copies) == 0

RECURSIVE Sum(_)
Sum(copies) ==
    IF DOMAIN copies = {} THEN 0
    ELSE LET k == CHOOSE x \in DOMAIN copies : TRUE
         IN  copies[k] + Sum([y \in DOMAIN copies \ {k} |-> copies[y]])

\* process_title once search has returned (1457-1499); net is what the
\* network does for the holdings of the record; found.raised when an
\* exception of holdings leaves the call
ProcessTitle ==
    /\ srch.pc = "returned"
    /\ IF srch.ret = <<>>
       THEN /\ found' = [found EXCEPT !.NOT_FOUND = Append(@, world.entry)]
            /\ srch' = [srch EXCEPT !.pc = "stored"]
            /\ UNCHANGED HTML_CACHE
       ELSE \E net \in ProcNets :
            \E h \in {holdings(HTML_CACHE, TRUE, net)} :
            \E t \in {Tally(h.rows, 1, EmptyFn, EmptyFn)} :
            LET f1 == [found EXCEPT !.RECORD_URL = CachePut(@, world.entry, srch.ret[1]),
                                    !.GR_META = CachePut(@, srch.ret[1], world.entry)]
            IN  /\ HTML_CACHE' = h.cache
                /\ srch' = [srch EXCEPT !.pc = "stored"]
                /\ found' =
                      IF h.raised THEN [f1 EXCEPT !.raised = TRUE]
                      ELSE [f1 EXCEPT !.rows = h.rows, !.copies = t.copies, !.meta = t.meta,
                                      !.tot = Sum(t.copies),
                                      !.NO_KOHAL = IF Sum(t.copies) = 0
                                                   THEN Append(@, world.entry) ELSE @]
    /\ UNCHANGED <<world, ERS_CACHE, dl, lastret, crawl, hold, cn, mt, run, wk>>

(***************************************************************************)
(* The canonicaliser on its own: cn.u and cn.v are two hit-list URLs,      *)
(* cn.k and cn.kv their keys, cn.kk the key of the key cn.k.               *)
(***************************************************************************)
NewCanon(u, v) == [pc |-> "start", u |-> u, v |-> v, k |-> NoUrl, kv |-> NoUrl, kk |-> NoUrl]

IdleCanon == [NewCanon(NoUrl, NoUrl) EXCEPT !.pc = "idle"]

\* key = _canon(url) for both URLs
CanonKeys ==
    /\ cn.pc = "start"
    /\ cn' = [cn EXCEPT !.pc = "keyed", !.k = _canon(cn.u), !.kv = _canon(cn.v)]
    /\ UNCHANGED <<world, HTML_CACHE, ERS_CACHE, dl, lastret, crawl, srch, found, hold, mt, run, wk>>

\* _canon of a key
CanonAgain ==
    /\ cn.pc = "keyed"
    /\ cn' = [cn EXCEPT !.pc = "rekeyed", !.kk = _canon(cn.k)]
    /\ UNCHANGED <<world, HTML_CACHE, ERS_CACHE, dl, lastret, crawl, srch, found, hold, mt, run, wk>>

(***************************************************************************)
(* One Matcher call: _looks_like_same_book(mt.w_ttl, mt.w_aut, mt.rec).    *)
(***************************************************************************)
NewMatch(w_ttl, w_aut, rec) ==
    [pc |-> "start", w_ttl |-> w_ttl, w_aut |-> w_aut, rec |-> rec,
     res |-> MatchRes(EmptyMem, FALSE, FALSE, [ttl |-> <<>>, aut |-> <<>>], FALSE, FALSE)]

IdleMatch == [NewMatch(<<>>, [comma |-> FALSE, last |-> <<>>], NoUrl) EXCEPT !.pc = "idle"]

MatchRecord ==
    /\ mt.pc = "start"
    /\ \E v \in {_looks_like_same_book(Mem, world, mt.w_ttl, mt.w_aut, mt.rec)} :
        /\ HTML_CACHE' = v.mem.cache
        /\ mt' = [mt EXCEPT !.pc = IF v.raised THEN "raised" ELSE "returned",
                            !.res = [v EXCEPT !.mem = EmptyMem]]
    /\ UNCHANGED <<world, ERS_CACHE, dl, lastret, crawl, srch, found, hold, cn, run, wk>>

(***************************************************************************)
(* main: the wish list is a sequence of books; Resolution(b) is what       *)
(* search and holdings do for book b.  run is the record                   *)
(*   mode       "seq" (--threads 1) or "pool"                              *)
(*   titles     the wish list                                              *)
(*   pc         "loop", "crashed" (an exception left main), "nothing"      *)
(*              (the return at 1629), "summary" (1631-1679)                *)
(*   i          sequential mode: the next entry                            *)
(*   running, finished   pool: the entries a worker runs / has run, the    *)
(*              latter in the order of completion                          *)
(*   collected  pool: the number of futures main has taken the result of   *)
(*   results    pool: the results of the futures                           *)
(*   copies, meta, NOT_FOUND, NO_KOHAL   the aggregation                   *)
(***************************************************************************)
Books == 1..6

Resolution(b) ==
    CASE b = 1 -> [kind |-> "raise", rows |-> <<>>]
      [] b \in {2, 6} -> [kind |-> "none", rows |-> <<>>]
      [] b = 3 -> [kind |-> "rows", rows |-> RowsOf(HtmlBody(HoldUrl("holdings~", 1), 5))]
      [] b = 4 -> [kind |-> "rows", rows |-> RowsOf(HtmlBody(HoldUrl("holdings~", 1), 3))]
      [] OTHER -> [kind |-> "rows", rows |-> RowsOf(HtmlBody(HoldUrl("holdings~", 1), 1))]

\* what one call process_title(..., author, title, isbn) for book b returns
\* and appends (1455-1499)
process_title(b) ==
    LET r == Resolution(b)
        t == Tally(r.rows, 1, EmptyFn, EmptyFn)
    IN  IF r.kind = "raise"
        THEN [raised |-> TRUE, nf |-> FALSE, nk |-> FALSE, copies |-> EmptyFn, meta |-> EmptyFn]
        ELSE IF r.kind = "none"
        THEN [raised |-> FALSE, nf |-> TRUE, nk |-> FALSE, copies |-> EmptyFn, meta |-> EmptyFn]
        ELSE [raised |-> FALSE, nf |-> FALSE, nk |-> Sum(t.copies) = 0,
              copies |-> [p \in {<<b, k>> : k \in DOMAIN t.copies} |-> t.copies[p[2]]],
              meta |-> t.meta]

\* Counter.update(c) (1620, 1626)
CounterOverwrite(copies, c) ==
    [k \in DOMAIN copies \cup DOMAIN c |-> IF k \in DOMAIN c THEN c[k] ELSE copies[k]]

CounterUpdate(copies, c) ==
    [k \in DOMAIN copies \cup DOMAIN c |->
        (IF k \in DOMAIN copies THEN copies[k] ELSE 0) + (IF k \in DOMAIN c THEN c[k] ELSE 0)]

\* dict.update(m)
DictUpdate(meta, m) ==
    [k \in DOMAIN meta \cup DOMAIN m |-> IF k \in DOMAIN m THEN m[k] ELSE meta[k]]

NewRun(mode, titles) ==
    [mode |-> mode, titles |-> titles, pc |-> "loop", i |-> 1, running |-> {},
     finished |-> <<>>, collected |-> 0, results |-> EmptyFn,
     copies |-> EmptyFn, meta |-> EmptyFn, NOT_FOUND |-> <<>>, NO_KOHAL |-> <<>>]

IdleRun == [NewRun("seq", <<>>) EXCEPT !.pc = "idle"]

\* the appends of process_title to the two global lists
Appended(r, b, res) ==
    [r EXCEPT !.NOT_FOUND = IF res.nf THEN Append(@, b) ELSE @,
              !.NO_KOHAL = IF res.nk THEN Append(@, b) ELSE @]

\* "c,m=...; copies.update(c); meta.update(m)"
Merged(r, res) ==
    [r EXCEPT !.copies = CounterUpdate(@, res.copies), !.meta = DictUpdate(@, res.meta)]

\* an exception of process_title is caught nowhere in main (1617-1626)
OnWorkerError(r) == [r EXCEPT !.pc = "crashed"]

\* --threads 1: one pass of the for loop (1618-1620)
RunSequential ==
    /\ run.mode = "seq" /\ run.pc = "loop" /\ run.i <= Len(run.titles)
    /\ \E res \in {process_title(run.titles[run.i])} :
        run' = IF res.raised THEN OnWorkerError(run)
               ELSE [Merged(Appended(run, run.titles[run.i], res), res) EXCEPT !.i = @ + 1]
    /\ UNCHANGED <<world, HTML_CACHE, ERS_CACHE, dl, lastret, crawl, srch, found, hold, cn, mt, wk>>

Started == run.running \cup {run.finished[k] : k \in 1..Len(run.finished)}

\* a worker of the pool takes the next submitted entry (1622-1624)
WorkerStart ==
    /\ run.mode = "pool" /\ run.pc \in {"loop", "crashed"}
    /\ Cardinality(run.running) < Threads
    /\ Cardinality(Started) < Len(run.titles)
    /\ run' = [run EXCEPT !.running = @ \cup {Cardinality(Started) + 1}]
    /\ UNCHANGED <<world, HTML_CACHE, ERS_CACHE, dl, lastret, crawl, srch, found, hold, cn, mt, wk>>

\* the worker running entry j ends its process_title call
WorkerFinish(j) ==
    /\ run.mode = "pool" /\ j \in run.running
    /\ \E res \in {process_title(run.titles[j])} :
        run' = [Appended(run, run.titles[j], res) EXCEPT
                   !.running = @ \ {j}, !.finished = Append(@, j),
                   !.results = CachePut(@, j, res)]
    /\ UNCHANGED <<world, HTML_CACHE, ERS_CACHE, dl, lastret, crawl, srch, found, hold, cn, mt, wk>>

\* "for f in as_completed(fut): c,m=f.result(); ..." (1625-1626)
Collect ==
    /\ run.mode = "pool" /\ run.pc = "loop" /\ run.collected < Len(run.finished)
    /\ \E res \in {run.results[run.finished[run.collected + 1]]} :
        run' = IF res.raised THEN OnWorkerError(run)
               ELSE [Merged(run, res) EXCEPT !.collected = @ + 1]
    /\ UNCHANGED <<world, HTML_CACHE, ERS_CACHE, dl, lastret, crawl, srch, found, hold, cn, mt, wk>>

\* after the loop (1628-1631)
Summarise ==
    /\ run.pc = "loop"
    /\ IF run.mode = "seq" THEN run.i > Len(run.titles)
       ELSE run.collected = Len(run.titles)
    /\ run' = [run EXCEPT !.pc = IF DOMAIN run.copies = {} THEN "nothing" ELSE "summary"]
    /\ UNCHANGED <<world, HTML_CACHE, ERS_CACHE, dl, lastret, crawl, srch, found, hold, cn, mt, wk>>

(***************************************************************************)
(* The workers of the pool inside _download.  process_title runs in the    *)
(* threads of the pool (1621-1624) and every page it needs goes through    *)
(* _download, which reads and writes the one HTML_CACHE with no lock; a    *)
(* worker can be descheduled between the test "url in HTML_CACHE" (479)    *)
(* and the request (484), and during the request.  wk is the record        *)
(*   w       per worker: pc "idle" or "get" (past the test of the cache,   *)
(*           before the request of attempt a for url)                      *)
(*   calls   the number of _download calls begun                           *)
(*   asked   per URL, the number of _download calls that went to the       *)
(*           network for it                                                *)
(*   first   per URL, the first non-empty body stored in HTML_CACHE        *)
(***************************************************************************)
Workers == 1..Threads

AtRest == [pc |-> "idle", url |-> NoUrl, a |-> 0]

IdleWk == [w |-> [x \in Workers |-> AtRest], calls |-> 0, asked |-> EmptyFn, first |-> EmptyFn]

\* the first non-empty body stored for url, once cache is written
FirstStored(first, cache, url) ==
    IF url \notin DOMAIN first /\ url \in DOMAIN cache /\ cache[url].kind = "html"
    THEN CachePut(first, url, cache[url])
    ELSE first

Asked(asked, url, a) ==
    IF a > 1 THEN asked
    ELSE CachePut(asked, url, IF url \in DOMAIN asked THEN asked[url] + 1 ELSE 1)

\* "if url in HTML_CACHE: return HTML_CACHE[url]" (479-480)
CacheCheck(x, u) ==
    /\ wk.w[x].pc = "idle"
    /\ wk.calls < MaxCalls
    /\ wk' = [wk EXCEPT !.calls = @ + 1,
                        !.w[x] = IF u \in DOMAIN HTML_CACHE THEN AtRest
                                 ELSE [pc |-> "get", url |-> u, a |-> 1]]
    /\ UNCHANGED <<world, HTML_CACHE, ERS_CACHE, dl, lastret, crawl, srch, found, hold, cn, mt, run>>

\* one pass of the for loop: the request, and the write of the cache that
\* ends the call (484-507); o is what the request does
Request(x, o) ==
    /\ wk.w[x].pc = "get"
    /\ \E u \in {wk.w[x].url}, a \in {wk.w[x].a} :
        /\ HTML_CACHE' =
              CASE o.kind = "ok" -> CachePut(HTML_CACHE, u, o.body)
                [] o.kind = "timeout" ->
                     IF LastTry(a) THEN CachePut(HTML_CACHE, u, EmptyBody) ELSE HTML_CACHE
                [] OTHER -> OnHttpError(HTML_CACHE, u, a).cache
        /\ wk' = [wk EXCEPT !.asked = Asked(@, u, a),
                            !.first = FirstStored(@, HTML_CACHE', u),
                            !.w[x] = IF o.kind = "timeout" /\ ~LastTry(a)
                                     THEN [@ EXCEPT !.a = a + 1]
                                     ELSE AtRest]
    /\ UNCHANGED <<world, ERS_CACHE, dl, lastret, crawl, srch, found, hold, cn, mt, run>>

(***************************************************************************)
(* The runs checked.                                                       *)
(***************************************************************************)
World(fan, stride, m, junk, anch, fail, failat, entry) ==
    [fan |-> fan, stride |-> stride, m |-> m, junk |-> junk, anch |-> anch,
     fail |-> fail, failat |-> failat, entry |-> entry]

At(k, i) == [kind |-> k, id |-> i]

Author(c, l) == [comma |-> c, last |-> l]

Entry(a, t, i) == [author |-> a, title |-> t, isbn |-> i]

DefaultEntry == Entry(Author(TRUE, <<"herbert">>), <<"dune">>, TRUE)

AnchorLists == UNION {[1..n -> RecIds] : n \in 0..MaxAnchors}

ShortLists(recs) == {<<>>} \cup {<<r>> : r \in recs}

FailKinds == {"timeout", "httperr", "connerr", "retryerr"}

\* ---- the fetch layer alone: any sequence of _download calls -------------
FetchUrls == {PageUrl(i, <<>>) : i \in 0..MaxFetchUrl}

FetchOutcomes(u) ==
    {Out("ok", EmptyBody)} \cup {Out("ok", HtmlBody(u, ver)) : ver \in 0..MaxVersion}
      \cup {Out(k, EmptyBody) : k \in FailKinds}

InitFetch ==
    /\ world = World(0, 1, 1, FALSE, EmptyFn, "none", At("none", 0), DefaultEntry)
    /\ HTML_CACHE = EmptyFn
    /\ ERS_CACHE = EmptyFn
    /\ dl = IdleDl
    /\ lastret = EmptyFn
    /\ crawl = IdleCrawl
    /\ srch = IdleSrch
    /\ found = IdleFound
    /\ hold = IdleHold
    /\ cn = IdleCanon
    /\ mt = IdleMatch
    /\ run = IdleRun
    /\ wk = IdleWk

\* one call _download(u); outs is what the network does on its attempts
Download(u, outs) ==
    \E d \in {_download(HTML_CACHE, u, outs)} :
    /\ HTML_CACHE' = d.cache
    /\ dl' = [url |-> u, ret |-> d.ret, raised |-> d.raised, reqs |-> d.reqs,
              last |-> IF d.reqs = 0 THEN "none" ELSE outs[d.reqs].kind,
              failed |-> IF ~d.raised /\ d.reqs > 0 /\ outs[d.reqs].kind \in {"timeout", "httperr"}
                         THEN dl.failed \cup {u} ELSE dl.failed,
              wasfailed |-> u \in dl.failed,
              prev |-> IF u \in DOMAIN lastret THEN lastret[u] ELSE IdleDl.prev]
    /\ lastret' = IF d.raised THEN lastret ELSE CachePut(lastret, u, d.ret)
    /\ UNCHANGED <<world, ERS_CACHE, crawl, srch, found, hold, cn, mt, run, wk>>

NextFetch == \E u \in FetchUrls : \E outs \in [1..tries -> FetchOutcomes(u)] : Download(u, outs)

SpecFetch == InitFetch /\ [][NextFetch]_vars

\* ---- one crawl from the start page of a site ---------------------------
GraphWorlds ==
    {World(f, 1, m, j, 0 :> l, "none", At("none", 0), DefaultEntry) :
        f \in 0..MaxFan, m \in 1..NPages, j \in BOOLEAN,
        l \in {<<>>, <<3, 1>>, <<3, 1, 2, 5, 6, 4>>}}

AnchorWorlds ==
    {World(f, 1, 2, FALSE, 0 :> l[1] @@ 1 :> l[2], "none", At("none", 0), DefaultEntry) :
        f \in 0..1, l \in AnchorLists \X ShortLists(RecIds)}

FailWorlds ==
    {World(1, 1, 2, FALSE, 0 :> l, k, a, DefaultEntry) :
        l \in AnchorLists, k \in FailKinds,
        a \in {At("hits", 0), At("frame", 1), At("rec", 1), At("rec", 3)}}

\* record pages with a holdings row and a carrier phrase among the anchors
TagRecs == {4, 9, 10}

TagWorlds ==
    {World(0, 1, 1, FALSE, 0 :> l, "none", At("none", 0), DefaultEntry) :
        l \in UNION {[1..n -> TagRecs] : n \in 0..MaxAnchors}}

CrawlWorlds == GraphWorlds \cup AnchorWorlds \cup FailWorlds \cup TagWorlds

InitCrawl ==
    /\ world \in CrawlWorlds
    /\ HTML_CACHE = EmptyFn
    /\ ERS_CACHE = EmptyFn
    /\ dl = IdleDl
    /\ lastret = EmptyFn
    /\ \E lim \in {0, ProbeLimit} : crawl = NewCrawl(EmptyMem, PageUrl(0, <<>>), lim)
    /\ srch = IdleSrch
    /\ found = IdleFound
    /\ hold = IdleHold
    /\ cn = IdleCanon
    /\ mt = IdleMatch
    /\ run = IdleRun
    /\ wk = IdleWk

\* one iteration of the while loop of collect_record_links
CrawlPage ==
    /\ crawl.status = "run"
    /\ \E c \in {CrawlStep([crawl EXCEPT !.mem = Mem], world)} :
        /\ crawl' = [c EXCEPT !.mem = EmptyMem]
        /\ HTML_CACHE' = c.mem.cache
        /\ ERS_CACHE' = c.mem.ers
    /\ UNCHANGED <<world, dl, lastret, srch, found, hold, cn, mt, run, wk>>

NextCrawl == CrawlPage

SpecCrawl == InitCrawl /\ [][NextCrawl]_vars

\* the interpreter keeps running the loop of the single-threaded call
SpecCrawlFair == SpecCrawl /\ WF_vars(CrawlPage)

\* ---- search and process_title for one wish-list entry ------------------
SearchRecs == {1, 2, 6}

HitLists == UNION {[1..n -> SearchRecs] : n \in 0..MaxAnchors}

Entries ==
    {Entry(a, t, i) :
        a \in {Author(TRUE, <<"herbert">>), Author(FALSE, <<>>)},
        t \in {<<"dune">>, <<"dune", "messiah">>, <<"dune", "(novel)">>},
        i \in BOOLEAN}

\* the hit lists l1, l2 are those of the probes whose start pages are i and j;
\* with base = 4 every start page wraps its hit list in a frame
SearchWorlds ==
    {World(IF base = 0 THEN 0 ELSE 1, 4, 8, FALSE,
           (base + ij[1]) :> l[1] @@ (base + ij[2]) :> l[2],
           "none", At("none", 0), e) :
        base \in {0, 4}, ij \in {p \in (0..3) \X (0..3) : p[1] < p[2]},
        l \in HitLists \X ShortLists(SearchRecs), e \in Entries}

SearchFailWorlds ==
    {World(0, 4, 8, FALSE, 0 :> <<1>> @@ 1 :> <<2, 1>>, k, a, e) :
        k \in FailKinds, a \in {At("hits", 0), At("frame", 1), At("rec", 1), At("rec", 2)},
        e \in Entries}

InitSearch ==
    /\ world \in SearchWorlds \cup SearchFailWorlds
    /\ HTML_CACHE = EmptyFn
    /\ ERS_CACHE = EmptyFn
    /\ dl = IdleDl
    /\ lastret = EmptyFn
    /\ crawl = IdleCrawl
    /\ srch = [IdleSrch EXCEPT !.pc = "isbn"]
    /\ found = IdleFound
    /\ hold = IdleHold
    /\ cn = IdleCanon
    /\ mt = IdleMatch
    /\ run = IdleRun
    /\ wk = IdleWk

NextSearch ==
    \/ SearchIsbn
    \/ SearchTitleIdx
    \/ SearchKwAuthorTitle
    \/ SearchKwTitleOnly
    \/ ProcessTitle

SpecSearch == InitSearch /\ [][NextSearch]_vars

\* ---- one holdings call -------------------------------------------------
HoldViewOutcomes(view) ==
    {Out("ok", EmptyBody)} \cup {Out("ok", HtmlBody(HoldUrl(view, 1), v)) : v \in HoldPages}
      \cup {Out(k, EmptyBody) : k \in FailKinds}

ApiOutcomes == {[kind |-> "error", items |-> 0]} \cup {[kind |-> "ok", items |-> n] : n \in 0..2}

InitHoldings ==
    /\ world = World(0, 1, 1, FALSE, EmptyFn, "none", At("none", 0), DefaultEntry)
    /\ HTML_CACHE = EmptyFn
    /\ ERS_CACHE = EmptyFn
    /\ dl = IdleDl
    /\ lastret = EmptyFn
    /\ crawl = IdleCrawl
    /\ srch = IdleSrch
    /\ found = IdleFound
    /\ \E b \in BOOLEAN, o1 \in HoldViewOutcomes("holdings~"),
          o2 \in HoldViewOutcomes("holdingsa~"), o3 \in ApiOutcomes :
          hold = NewHold(b, [primary |-> o1, alt |-> o2, api |-> o3])
    /\ cn = IdleCanon
    /\ mt = IdleMatch
    /\ run = IdleRun
    /\ wk = IdleWk

NextHoldings == HoldPrimary \/ HoldAlternate \/ HoldApi

SpecHoldings == InitHoldings /\ [][NextHoldings]_vars

\* ---- the canonicaliser on hit-list URLs --------------------------------
QueryTokens == {"arg", "slice", "save", "enc", "enc2"}

Queries == UNION {[1..n -> QueryTokens] : n \in 0..MaxQuery}

HitListUrls == {Url("hits", 0, qq) : qq \in Queries}

InitCanon ==
    /\ world = World(0, 1, 1, FALSE, EmptyFn, "none", At("none", 0), DefaultEntry)
    /\ HTML_CACHE = EmptyFn
    /\ ERS_CACHE = EmptyFn
    /\ dl = IdleDl
    /\ lastret = EmptyFn
    /\ crawl = IdleCrawl
    /\ srch = IdleSrch
    /\ found = IdleFound
    /\ hold = IdleHold
    /\ \E u \in HitListUrls, v \in HitListUrls : cn = NewCanon(u, v)
    /\ mt = IdleMatch
    /\ run = IdleRun
    /\ wk = IdleWk

NextCanon == CanonKeys \/ CanonAgain

SpecCanon == InitCanon /\ [][NextCanon]_vars

\* ---- one Matcher call ---------------------------------------------------
TitleSegs == {"dune", "messiah", "herbert", "(novel)"}

WantedTitles == UNION {[1..n -> TitleSegs] : n \in 0..MaxTitle} \cup {<<"tsernoboli", "palve">>}

WantedAuthors ==
    {Author(c, l) : c \in BOOLEAN,
                    l \in {<<>>, <<"herbert">>, <<"frank", "herbert">>, <<"lynch">>,
                           <<"aleksijevits">>}}

MatchRecs == (1..8) \cup {11}

MatchWorlds ==
    {World(0, 1, 1, FALSE, EmptyFn, k, a, DefaultEntry) :
        k \in {"none"} \cup FailKinds, a \in {At("rec", 1), At("rec", 5)}}

InitMatch ==
    /\ world \in MatchWorlds
    /\ HTML_CACHE = EmptyFn
    /\ ERS_CACHE = EmptyFn
    /\ dl = IdleDl
    /\ lastret = EmptyFn
    /\ crawl = IdleCrawl
    /\ srch = IdleSrch
    /\ found = IdleFound
    /\ hold = IdleHold
    /\ cn = IdleCanon
    /\ \E t \in WantedTitles, a \in WantedAuthors, r \in MatchRecs :
          mt = NewMatch(t, a, RecUrl(r))
    /\ run = IdleRun
    /\ wk = IdleWk

NextMatch == MatchRecord

SpecMatch == InitMatch /\ [][NextMatch]_vars

\* ---- one run of main over a wish list ----------------------------------
WishLists == UNION {[1..n -> Books] : n \in 0..MaxEntries}

InitRun ==
    /\ world = World(0, 1, 1, FALSE, EmptyFn, "none", At("none", 0), DefaultEntry)
    /\ HTML_CACHE = EmptyFn
    /\ ERS_CACHE = EmptyFn
    /\ dl = IdleDl
    /\ lastret = EmptyFn
    /\ crawl = IdleCrawl
    /\ srch = IdleSrch
    /\ found = IdleFound
    /\ hold = IdleHold
    /\ cn = IdleCanon
    /\ mt = IdleMatch
    /\ \E m \in {"seq", "pool"}, t \in WishLists : run = NewRun(m, t)
    /\ wk = IdleWk

NextRun ==
    \/ RunSequential
    \/ WorkerStart
    \/ \E j \in 1..MaxEntries : WorkerFinish(j)
    \/ Collect
    \/ Summarise

SpecRun == InitRun /\ [][NextRun]_vars

\* ---- the workers of a pool run in _download -----------------------------
WorkerOutcomes(u) ==
    {Out("ok", HtmlBody(u, ver)) : ver \in 0..MaxVersion}
      \cup {Out("timeout", EmptyBody), Out("httperr", EmptyBody)}

InitWorkers ==
    /\ world = World(0, 1, 1, FALSE, EmptyFn, "none", At("none", 0), DefaultEntry)
    /\ HTML_CACHE = EmptyFn
    /\ ERS_CACHE = EmptyFn
    /\ dl = IdleDl
    /\ lastret = EmptyFn
    /\ crawl = IdleCrawl
    /\ srch = IdleSrch
    /\ found = IdleFound
    /\ hold = IdleHold
    /\ cn = IdleCanon
    /\ mt = IdleMatch
    /\ run = IdleRun
    /\ wk = [IdleWk EXCEPT !.asked = [u \in FetchUrls |-> 0]]

NextWorkers ==
    \/ \E x \in Workers, u \in FetchUrls : CacheCheck(x, u)
    \/ \E x \in Workers : \E o \in WorkerOutcomes(wk.w[x].url) : Request(x, o)

SpecWorkers == InitWorkers /\ [][NextWorkers]_vars

\* the whole model: any of the kinds of run
Init == InitFetch \/ InitCrawl \/ InitSearch \/ InitHoldings \/ InitCanon \/ InitMatch \/ InitRun \/ InitWorkers

Next == NextFetch \/ NextCrawl \/ NextSearch \/ NextHoldings \/ NextCanon \/ NextMatch \/ NextRun \/ NextWorkers

Spec == Init /\ [][Next]_vars

(***************************************************************************)
(* Properties.                                                             *)
(***************************************************************************)
Returned(c) == c.status \in {"done", "abort"}

\* the verdict of lines 412-423 for a record whose page body is b
ClassOf(b) ==
    IF ~HasHoldingsRow(b) /\ HasErsTag(b) THEN "EResource"
    ELSE IF HasNonbookTag(b) THEN "NonBook"
    ELSE "Physical"

IsPrefix(a, b) == Len(a) <= Len(b) /\ \A i \in 1..Len(a) : a[i] = b[i]

\* C1: once a call _download(u) has returned, every later call for the same
\* URL returns that same body and issues no network request.
C1_CachedForTheRun ==
    dl.prev.kind # "none" => (~dl.raised /\ dl.ret = dl.prev /\ dl.reqs = 0)

\* a URL whose download failed is asked for again
C1_Witness ==
    /\ dl.prev = EmptyBody
    /\ dl.ret = EmptyBody
    /\ dl.reqs = 0
    /\ dl.url \in DOMAIN HTML_CACHE

\* C2: _download never propagates an exception to its caller, whatever the
\* failure of the network request.
C2_NeverRaises == ~dl.raised

\* C3: search issues its probes in the order ISBN (only with an ISBN),
\* title-index, keyword author+title, keyword title-only, and no probe is
\* issued after the one that yielded the accepted record.
C3_ProbeOrder ==
    LET expected == (IF world.entry.isbn THEN <<"keyword-isbn">> ELSE <<>>)
                      \o <<"title-idx", "kw-author+title", "kw-title-only">>
    IN  /\ IsPrefix(srch.probes, expected)
        /\ srch.by # "none" => srch.probes[Len(srch.probes)] = srch.by
        /\ (srch.pc \in {"returned", "stored"} /\ srch.by = "none")
             => srch.probes = expected

\* the third probe accepted a record after the first two found none
C3_Witness ==
    /\ srch.pc = "stored"
    /\ srch.by = "kw-author+title"
    /\ srch.probes = <<"keyword-isbn", "title-idx", "kw-author+title">>

\* C4: with an ISBN, when the crawl of the ISBN probe returns a physical
\* candidate, search returns the first one, never asks the Matcher and issues
\* no other probe.
C4_IsbnUnverified ==
    (world.entry.isbn /\ Len(srch.links) >= 1 /\ srch.links[1] # <<>>)
      => /\ srch.pc \in {"returned", "stored"}
         /\ srch.ret = <<srch.links[1][1]>>
         /\ ClassOf(HTML_CACHE[srch.ret[1]]) = "Physical"
         /\ srch.calls = <<>>
         /\ srch.probes = <<"keyword-isbn">>

\* the ISBN crawl returned two candidates and the first one was stored
C4_Witness ==
    /\ srch.pc = "stored"
    /\ srch.by = "keyword-isbn"
    /\ Len(srch.links[1]) >= 2
    /\ found.RECORD_URL[world.entry] = srch.links[1][1]

\* C5: search returns 0 or 1 record and process_title stores at most one
\* record for the entry.
C5_AtMostOneRecord ==
    /\ Len(srch.ret) <= 1
    /\ Cardinality(DOMAIN found.RECORD_URL) <= 1
    /\ Cardinality(DOMAIN found.GR_META) <= 1

\* a probe returned several candidates and one record was stored
C5_Witness ==
    /\ srch.pc = "stored"
    /\ Len(srch.ret) = 1
    /\ Cardinality(DOMAIN found.GR_META) = 1
    /\ \E i \in 1..Len(srch.links) : Len(srch.links[i]) >= 2

\* the Matcher calls made while the probe lbl was running
CallsOf(lbl) == SelectSeq(srch.calls, LAMBDA c : c.probe = lbl)

\* C6: a record returned from the title-index or a keyword probe passed the
\* Matcher, and every candidate before it in the crawl order of that probe
\* was given to the Matcher and rejected.
C6_FirstVerifiedHit ==
    srch.by \in {"title-idx", "kw-author+title", "kw-title-only"}
      => LET links == srch.links[Len(srch.links)]
             calls == CallsOf(srch.by)
             k     == Len(calls)
         IN  /\ k \in 1..Len(links)
             /\ srch.ret = <<links[k]>>
             /\ \A j \in 1..k : calls[j].rec = links[j] /\ (calls[j].ok <=> j = k)
             /\ _looks_like_same_book(Mem, world, strip_parens(world.entry.title),
                                      world.entry.author, links[k]).val

\* the title-index probe returned two candidates, the first was rejected
C6_Witness ==
    /\ srch.by = "title-idx"
    /\ Len(srch.calls) = 2
    /\ ~srch.calls[1].ok
    /\ srch.ret = <<srch.calls[2].rec>>

\* C7: collect_record_links terminates on every page graph.
C7_Terminates == <>(crawl.status # "run")

\* a crawl over frames that link in a cycle has returned
C7_Witness ==
    /\ crawl.status = "done"
    /\ world.fan = 1
    /\ world.m > 1
    /\ Len(crawl.opened) >= world.m

\* C8: a crawl never opens more than _MAX_VISITED pages.
C8_VisitedWithinCap == Len(crawl.opened) <= _MAX_VISITED

\* the records with a "+ physical" verdict, in the order they were found
Collected(c) ==
    LET plus == SelectSeq(c.verdicts, LAMBDA v : v.tag = "+ physical")
    IN  [i \in 1..Len(plus) |-> plus[i].rec]

LimitHit(c) == c.limit # 0 /\ Len(c.ret) >= c.limit

\* C10: the crawl returns no record classified EResource or NonBook, and such
\* a record does not end the crawl: every Physical record anchored on a page
\* the crawl opened has been looked at and is returned (unless the limit of
\* records was reached).
C10_SkipsNonPhysical ==
    /\ \A i \in 1..Len(crawl.ret) : ClassOf(HTML_CACHE[crawl.ret[i]]) = "Physical"
    /\ \A i \in 1..Len(crawl.verdicts) :
          crawl.verdicts[i].tag \in {"- e-resource", "- non-book"}
            => ~InSeq(crawl.verdicts[i].rec, crawl.out)
    /\ (Returned(crawl) /\ ~LimitHit(crawl))
         => \A p \in 1..Len(crawl.opened) :
              LET recs == RecordAnchors(world, HTML_CACHE[crawl.opened[p]])
              IN  \A i \in 1..Len(recs) :
                    /\ recs[i] \in DOMAIN HTML_CACHE
                    /\ ClassOf(HTML_CACHE[recs[i]]) = "Physical" => InSeq(recs[i], crawl.ret)

\* an e-resource is the first anchor and a physical record the second anchor
\* of the one page opened: the second is returned
C10_Witness ==
    /\ crawl.status = "done"
    /\ Len(crawl.opened) = 1
    /\ Len(crawl.verdicts) = 2
    /\ crawl.verdicts[1].tag = "- e-resource"
    /\ crawl.verdicts[2].tag = "+ physical"
    /\ crawl.ret = <<crawl.verdicts[2].rec>>

\* the number of "+ physical" verdicts among the first n verdicts of a crawl
RECURSIVE PhysCount(_, _)
PhysCount(c, n) ==
    IF n = 0 THEN 0
    ELSE PhysCount(c, n - 1) + (IF c.verdicts[n].tag = "+ physical" THEN 1 ELSE 0)

ByProbe(c) == c.limit = ProbeLimit /\ c.status # "idle"

Tiers == <<"holdings~", "holdingsa~", "api">>

\* C12: holdings invokes the primary view, the alternate view and the JSON
\* service in that order, a tier only after every earlier tier returned no
\* row, and returns exactly the rows of the first tier that returned a row
\* (the empty list when none did).
C12_TierPrecedence ==
    /\ IsPrefix(hold.calls, Tiers)
    /\ Len(hold.got) = Len(hold.calls)
    /\ \A i \in 1..Len(hold.calls) : \A j \in 1..(i - 1) : hold.got[j] = <<>>
    /\ hold.pc = "returned" =>
         IF \E i \in 1..Len(hold.got) : hold.got[i] # <<>>
         THEN hold.ret = hold.got[Len(hold.got)] /\ hold.ret # <<>>
         ELSE hold.ret = <<>> /\ (hold.has_bib => hold.calls = Tiers)

\* the primary view has no usable row, the alternate view has one, the JSON
\* service would have had rows too: the rows of the alternate view are returned
C12_Witness ==
    /\ hold.pc = "returned"
    /\ hold.calls = <<"holdings~", "holdingsa~">>
    /\ hold.got[1] = <<>>
    /\ hold.ret = <<Row(Loc("holdingsa~", "TLUAR"), 2, "KOHAL")>>
    /\ hold.net.api.kind = "ok" /\ hold.net.api.items > 0

\* C13: for every hit-list URL u, _canon(_canon(u)) = _canon(u).
C13_CanonIdempotent ==
    cn.pc = "rekeyed" => cn.kk = cn.k

\* the noise-free part of a query: the save parameters and the slice
\* counters that end it removed
RECURSIVE DropTrailingSlices(_)
DropTrailingSlices(qq) ==
    IF qq # <<>> /\ qq[Len(qq)] = "slice"
    THEN DropTrailingSlices(SubSeq(qq, 1, Len(qq) - 1))
    ELSE qq

Core(qq) == DropTrailingSlices(SelectSeq(qq, NotSave))

\* C14: two hit-list URLs that differ only in trailing slice counters and
\* save parameters have the same canonical key.
C14_NoiseSameKey ==
    (cn.pc \in {"keyed", "rekeyed"} /\ Core(cn.u.q) = Core(cn.v.q)) => cn.k = cn.kv

\* the tokens of the paren-stripped wanted title of the Matcher call
WantedToks == _tokenise(strip_parens(mt.w_ttl))

\* the combined title + author token set of the candidate record
RecordToks == _tokenise(mt.res.r_ttl) \cup _tokenise(mt.res.r_aut)

\* C15: for a wanted title of several words, when _looks_like_same_book
\* returns true every token of the paren-stripped, tokenised wanted title is
\* in the record's combined title + author token set.
C15_SubsetLaw ==
    (mt.pc = "returned" /\ mt.res.val /\ Len(mt.w_ttl) > 1) => WantedToks \subseteq RecordToks

\* "dune messiah" is wanted and the record "Dune messiah" matches
C15_Witness ==
    /\ mt.pc = "returned"
    /\ mt.res.val
    /\ Cardinality(WantedToks) = 2
    /\ mt.res.r_ttl = <<"dune", "messiah">>

\* the call was made for a record whose title field cannot be extracted: the
\* fetch of the page failed, or the page has no title element
NoTitleField ==
    /\ mt.pc \in {"returned", "raised"}
    /\ \/ world.fail # "none" /\ world.failat = At("rec", mt.rec.id)
       \/ RecordPage(mt.rec.id).ttl = <<>>

\* C16: if the title field of the candidate record cannot be extracted, the
\* Matcher returns no-match, whatever the wanted title and author.
C16_FailsClosed ==
    NoTitleField => (mt.pc = "returned" /\ ~mt.res.val)

\* C17: for a wanted title of a single token the title test passes only if
\* the record title starts with that token as a whole token.
C17_SingleTokenStartsWith ==
    (mt.pc = "returned" /\ mt.res.r_ttl # <<>> /\ Cardinality(WantedToks) = 1 /\ mt.res.ttl_ok)
      => WantedToks = {mt.res.r_ttl[1]}

\* "dune" is wanted: "Children of Dune" holds the word later in its title,
\* and the title test fails
C17_Witness ==
    /\ mt.pc = "returned"
    /\ WantedToks = {"dune"}
    /\ mt.res.r_ttl = <<"children", "of", "dune">>
    /\ ~mt.res.ttl_ok

\* the wanted author has no surname to extract: the string is empty or
\* blank, or nothing stands before its comma
NoSurname(a) == a.last = <<>>

\* C18: when the wanted author has no extractable surname the author test
\* passes and the result of the Matcher is that of the title test; otherwise
\* the record matches only if both tests pass.
C18_AuthorVacuous ==
    (mt.pc \in {"returned", "raised"} /\ ~NoTitleField) =>
       /\ mt.pc = "returned"
       /\ NoSurname(mt.w_aut) => (mt.res.auth_ok /\ mt.res.val = mt.res.ttl_ok)
       /\ mt.res.val = (mt.res.ttl_ok /\ mt.res.auth_ok)

\* the verdict lines the crawl logged for record URL rec
TagsOf(rec) ==
    {crawl.verdicts[i].tag : i \in {j \in 1..Len(crawl.verdicts) : crawl.verdicts[j].rec = rec}}

\* the record pages fetched whose body holds the holdings-table marker
WithMarker ==
    {u \in DOMAIN HTML_CACHE :
        u.kind = "rec" /\ IsRecBody(HTML_CACHE[u]) /\ RecordPage(u.id).marker}

\* C19 as stated: a record page with the holdings-table marker is classified
\* Physical, whatever carrier phrases occur on it.
C19_MarkerMeansPhysical ==
    \A u \in WithMarker : TagsOf(u) \subseteq {"+ physical", "- duplicate"}

\* C19 amended: a record page with the holdings-table marker is never
\* classified EResource, whatever e-resource phrases occur on it; it is
\* classified NonBook (and skipped) if a non-book carrier phrase occurs on
\* it, and Physical otherwise.
C19_MarkerNeverEResource ==
    \A u \in WithMarker :
       /\ TagsOf(u) # {}
       /\ IF RecordPage(u.id).nonbook
          THEN TagsOf(u) = {"- non-book"} /\ ~InSeq(u, crawl.out)
          ELSE TagsOf(u) \subseteq {"+ physical", "- duplicate"} /\ InSeq(u, crawl.out)

\* a page with the marker and an e-resource phrase is accepted, a page with
\* the marker and a non-book phrase is skipped
C19_Witness ==
    /\ crawl.status = "done"
    /\ Len(crawl.verdicts) = 2
    /\ crawl.verdicts[1] = [rec |-> RecUrl(10), tag |-> "- non-book"]
    /\ crawl.verdicts[2] = [rec |-> RecUrl(9), tag |-> "+ physical"]
    /\ crawl.ret = <<RecUrl(9)>>

\* the classification a verdict line stands for; a duplicate is a record
\* that passed both tests and is in the list already
ClassOfTag(tag) ==
    IF tag = "- e-resource" THEN "EResource"
    ELSE IF tag = "- non-book" THEN "NonBook"
    ELSE "Physical"

\* C20: every record page the crawl examined, an empty body included, has
\* exactly one classification among Physical, EResource and NonBook: it has
\* a verdict, and all its verdicts stand for the one class of its body.
C20_ExactlyOneClass ==
    \A u \in {x \in DOMAIN HTML_CACHE : x.kind = "rec"} :
       /\ TagsOf(u) # {}
       /\ TagsOf(u) \subseteq {"+ physical", "- duplicate", "- e-resource", "- non-book"}
       /\ {ClassOfTag(t) : t \in TagsOf(u)} = {ClassOf(HTML_CACHE[u])}

\* the fetch of a record page timed out: its empty body is classified
\* Physical; another record is classified EResource
C20_Witness ==
    /\ crawl.status = "done"
    /\ \E i \in 1..Len(crawl.verdicts) :
          /\ HTML_CACHE[crawl.verdicts[i].rec] = EmptyBody
          /\ crawl.verdicts[i].tag = "+ physical"
    /\ \E i \in 1..Len(crawl.verdicts) : crawl.verdicts[i].tag = "- e-resource"

\* how often the crawl inspected the body of rec in function fn
ScanCount(rec, fn) ==
    Cardinality({i \in 1..Len(crawl.scans) : crawl.scans[i] = [rec |-> rec, fn |-> fn]})

\* how often the crawl classified rec
VerdictCount(rec) ==
    Cardinality({i \in 1..Len(crawl.verdicts) : crawl.verdicts[i].rec = rec})

CrawlRecs == {crawl.verdicts[i].rec : i \in 1..Len(crawl.verdicts)}

WithMarkerKohal == {"KOHAL", "KOHAL LUGEMISSAALIS"}

\* the holdings rows of the entry at library key k whose status holds the marker
AvailableAt(k) ==
    {i \in 1..Len(found.rows) :
        resolve(found.rows[i].loc) = k /\ found.rows[i].sta \in WithMarkerKohal}

Processed == srch.pc = "stored" /\ ~found.raised

\* C22: for an entry with an accepted record the count of available copies
\* is the number of holdings rows whose status contains "KOHAL"; a row with
\* another status records its location in the metadata and counts nothing.
C22_CountsKohalOnly ==
    (Processed /\ srch.ret # <<>>) =>
       /\ found.tot = Cardinality({i \in 1..Len(found.rows) : found.rows[i].sta \in WithMarkerKohal})
       /\ DOMAIN found.meta = {resolve(found.rows[i].loc) : i \in 1..Len(found.rows)}
       /\ DOMAIN found.copies = {k \in DOMAIN found.meta : AvailableAt(k) # {}}
       /\ \A k \in DOMAIN found.copies : found.copies[k] = Cardinality(AvailableAt(k))

\* one row on the shelf at one library, one row lent out at another: one
\* copy counted, two locations recorded
C22_Witness ==
    /\ Processed
    /\ Len(found.rows) = 2
    /\ found.rows[1].sta = "KOHAL"
    /\ found.rows[2].sta = "TAHTAEG 01-12-25"
    /\ found.tot = 1
    /\ Cardinality(DOMAIN found.meta) = 2
    /\ Cardinality(DOMAIN found.copies) = 1

InNotFound == InSeq(world.entry, found.NOT_FOUND)

InNoKohal == InSeq(world.entry, found.NO_KOHAL)

PositiveTotal == \E k \in DOMAIN found.copies : found.copies[k] > 0

\* C23: when process_title completes, exactly one holds: the entry is in
\* NOT_FOUND (search returned nothing), the entry is in NO_KOHAL (a record
\* was accepted, no copy is available), or the counter returned has a
\* positive total; an entry in NO_KOHAL has an accepted record.
C23_ExactlyOneOutcome ==
    Processed =>
       /\ Cardinality({o \in {"nf", "nk", "pos"} :
                         \/ o = "nf" /\ InNotFound
                         \/ o = "nk" /\ InNoKohal
                         \/ o = "pos" /\ PositiveTotal}) = 1
       /\ InNotFound <=> srch.ret = <<>>
       /\ InNoKohal => (srch.ret # <<>> /\ world.entry \in DOMAIN found.RECORD_URL)
       /\ Len(found.NOT_FOUND) + Len(found.NO_KOHAL) <= 1

\* a record was accepted, its holdings list only a lent copy: NO_KOHAL
C23_Witness ==
    /\ Processed
    /\ InNoKohal
    /\ ~InNotFound
    /\ found.rows # <<>>
    /\ world.entry \in DOMAIN found.RECORD_URL

\* C24: no failure while resolving an entry stops the run: no exception
\* leaves main, in the sequential and in the thread-pool mode.
C24_NoEntryStopsTheRun == run.pc # "crashed"

RunOver == run.pc \in {"nothing", "summary"}

\* the positions of the wish list whose book is b
Listed(b) == {i \in 1..Len(run.titles) : run.titles[i] = b}

\* what the aggregation has to be: per book and library the available rows,
\* once for each time the book is listed
ExpectedCopies ==
    LET avail(b, k) ==
          Cardinality({i \in 1..Len(Resolution(b).rows) :
                          resolve(Resolution(b).rows[i].loc) = k
                            /\ Resolution(b).rows[i].sta \in WithMarkerKohal})
        keys == UNION {{<<b, resolve(Resolution(b).rows[i].loc)>> :
                           i \in 1..Len(Resolution(b).rows)} :
                       b \in {x \in Books : Listed(x) # {}}}
    IN  {<<p, Cardinality(Listed(p[1])) * avail(p[1], p[2])>> :
            p \in {q \in keys : avail(q[1], q[2]) > 0}}

CopiesAsSet(copies) == {<<p, copies[p]>> : p \in DOMAIN copies}

ExpectedMeta ==
    UNION {{resolve(Resolution(b).rows[j].loc) : j \in 1..Len(Resolution(b).rows)} :
              b \in {x \in Books : Listed(x) # {}}}

\* the books of the list for which process_title appends to NOT_FOUND, to
\* NO_KOHAL, in the order of the list
IsNotFound(b) == process_title(b).nf

IsNoKohal(b) == process_title(b).nk

\* the number of times b occurs in the sequence sq
Times(sq, b) == Cardinality({i \in 1..Len(sq) : sq[i] = b})

SameLines(sq, ref) == \A b \in Books : Times(sq, b) = Times(ref, b)

GaveUpOn(k) == dl.reqs > 0 /\ dl.last = k

C26_RequestedOncePerRun == \A u \in DOMAIN wk.asked : wk.asked[u] <= 1

\* C28: for the wanted author "Aleksijevitš, Svetlana" and a record whose
\* author is "Alexievich, Svetlana", _canon_name gives both surnames the
\* same key and the author test passes.
C28_VariantSurnamesMatch ==
    (/\ mt.pc = "returned"
     /\ mt.w_aut = Author(TRUE, <<"aleksijevits">>)
     /\ mt.res.r_aut = <<"alexievich", "svetlana">>)
       => /\ _canon_name("aleksijevits") = _canon_name("alexievich")
          /\ mt.res.auth_ok

\* C29: within one crawl no two opened pages have the same canonical key.
C29_OpenedOncePerKey ==
    \A i, j \in 1..Len(crawl.opened) :
        _canon(crawl.opened[i]) = _canon(crawl.opened[j]) => i = j

\* a URL was in the queue when a URL of the same key was opened, and was
\* dropped when its turn came
C29_Witness ==
    /\ crawl.status = "done"
    /\ \E u \in crawl.skipped : \E i \in 1..Len(crawl.opened) :
          /\ _canon(u) = _canon(crawl.opened[i])
          /\ u # crawl.opened[i]

\* C30: no lead that matches _BAD_LEADS is in the queue of a crawl or among
\* the pages it opened.
C30_BadLeadsNeverFollowed ==
    /\ \A i \in 1..Len(crawl.q) : ~IsBadLead(crawl.q[i])
    /\ \A i \in 1..Len(crawl.opened) :
          /\ crawl.opened[i].kind # "bad"
          /\ \A k \in 1..Len(crawl.opened[i].q) : crawl.opened[i].q[k] # "save"

\* a crawl went through pages that each carry a save lead and a frame on a
\* patron endpoint, and followed their other leads
C30_Witness ==
    /\ world.junk
    /\ crawl.status = "done"
    /\ Len(crawl.opened) > 2
    /\ \A i \in 1..Len(crawl.opened) :
          /\ crawl.opened[i] \in DOMAIN HTML_CACHE
          /\ HTML_CACHE[crawl.opened[i]].kind = "html"

\* C31 as stated: a page that has record anchors contributes no frontier
\* node.
C31_LeadsOnlyWithoutAnchors ==
    \A u \in crawl.fed : AnchorsOf(world, u.id) = <<>>

\* C31 amended: the leads of an opened page are followed whether or not the
\* page has record anchors: when the crawl ends with its queue exhausted,
\* every lead of every opened page that is neither empty nor a bad lead has
\* its key among the visited pages, and the pages that fed the queue are
\* opened pages.
C31_LeadsAlwaysFollowed ==
    /\ \A u \in crawl.fed : InSeq(u, crawl.opened)
    /\ (crawl.status = "done" /\ ~LimitHit(crawl)) =>
          \A i \in 1..Len(crawl.opened) :
             LET leads == PageLeads(world, HTML_CACHE[crawl.opened[i]])
             IN  \A k \in 1..Len(leads) :
                    (leads[k].kind # "empty" /\ ~IsBadLead(leads[k]))
                       => _canon(leads[k]) \in crawl.seen_pages

\* a page with a record anchor put one of its frames in the queue, and the
\* crawl ended with the queue exhausted
C31_Witness ==
    /\ crawl.status = "done"
    /\ ~LimitHit(crawl)
    /\ \E u \in crawl.fed : AnchorsOf(world, u.id) # <<>>

\* the title without the parenthesised group that ends it
DropLastParen(t) ==
    IF t # <<>> /\ IsParen(t[Len(t)]) THEN SubSeq(t, 1, Len(t) - 1) ELSE t

\* C32: strip_parens removes only the parenthesised group at the very end
\* of the wanted title and keeps all that precedes it.
C32_OnlyFinalParenRemoved ==
    mt.pc = "returned" => strip_parens(mt.w_ttl) = DropLastParen(mt.w_ttl)

\* C33: once HTML_CACHE holds a non-empty body for a URL, no write of any
\* worker replaces it: the cache keeps the first non-empty body stored.
C33_BodyNeverReplaced ==
    \A u \in DOMAIN wk.first : HTML_CACHE[u] = wk.first[u]

\* C34: a URL whose fetch has finally failed (timeouts exhausted or an HTTP
\* error status) is never asked from the network again in the run: every
\* later _download of it returns the empty body with no request.
C34_FailedNeverRetried ==
    dl.wasfailed => (~dl.raised /\ dl.ret = EmptyBody /\ dl.reqs = 0)

\* a URL whose fetch was given up is asked for again
C34_Witness ==
    /\ dl.wasfailed
    /\ dl.reqs = 0
    /\ dl.ret = EmptyBody
    /\ dl.url \in dl.failed
    /\ HTML_CACHE[dl.url] = EmptyBody

\* the first record anchored on the hit list of the ISBN probe is a page
\* whose fetch ends in timeouts or in an HTTP error status
IsbnHitUnfetchable ==
    /\ world.entry.isbn
    /\ world.fail \in {"timeout", "httperr"}
    /\ AnchorsOf(world, 0) # <<>>
    /\ world.failat = At("rec", AnchorsOf(world, 0)[1])

\* C35: a record whose page could not be fetched is classified Physical by
\* the crawl, and reached through the ISBN probe it is returned by search
\* with no call of the Matcher and no other probe.
C35_UnfetchableAcceptedByIsbn ==
    (IsbnHitUnfetchable /\ srch.pc # "isbn") =>
       LET rec == RecUrl(AnchorsOf(world, 0)[1])
       IN  /\ HTML_CACHE[rec] = EmptyBody
           /\ TagsOf(rec) = {"+ physical"}
           /\ srch.pc \in {"returned", "stored"}
           /\ srch.ret = <<rec>>
           /\ srch.by = "keyword-isbn"
           /\ srch.calls = <<>>
           /\ srch.probes = <<"keyword-isbn">>

\* the record with the empty page was stored as the record of the entry
C35_Witness ==
    /\ IsbnHitUnfetchable
    /\ srch.pc = "stored"
    /\ world.entry \in DOMAIN found.RECORD_URL
    /\ found.RECORD_URL[world.entry] \in DOMAIN HTML_CACHE
    /\ HTML_CACHE[found.RECORD_URL[world.entry]] = EmptyBody

\* C36: when the wanted title has no token left after strip_parens and
\* _tokenise, the title test passes: a record with a title is accepted
\* exactly when the author test passes.
C36_EmptyTitlePasses ==
    (/\ mt.pc = "returned"
     /\ _tokenise(strip_parens(mt.w_ttl)) = {}
     /\ mt.res.r_ttl # <<>>)
       => /\ mt.res.ttl_ok
          /\ mt.res.val <=> mt.res.auth_ok

\* a wanted title that is only a parenthesised group: the record of another
\* title by the wanted author is accepted
C36_Witness ==
    /\ mt.pc = "returned"
    /\ mt.w_ttl = <<"(novel)">>
    /\ mt.w_aut = Author(TRUE, <<"herbert">>)
    /\ mt.res.r_ttl = <<"children", "of", "dune">>
    /\ mt.res.val

\* C37: when holdings gives no row for the accepted record, whatever the
\* reason, process_title completes and the entry is in NO_KOHAL and not in
\* NOT_FOUND.
C37_NoRowsMeansNoKohal ==
    (srch.pc = "stored" /\ srch.ret # <<>> /\ found.rows = <<>>) =>
       /\ ~found.raised
       /\ InNoKohal
       /\ ~InNotFound

====
